---- MODULE Spec2Model ----
(***************************************************************************)
(* Voice assistant: the interaction orchestrator (src/src/assistant.py),   *)
(* the VAD recording loop it drives (src/src/audio/recorder.py) and the    *)
(* bounded conversation memory (src/src/conversation/memory.py,            *)
(* src/src/conversation/chat_handler.py).                                  *)
(*                                                                         *)
(* Text is a sequence of one-character strings, so that lower(), strip()   *)
(* and the `in` substring test are computed as Python computes them.       *)
(* Time inside record_with_vad is counted in polls of its loop.            *)
(***************************************************************************)
EXTENDS Integers, Sequences, FiniteSets, TLC

(***************************************************************************)
(* Bounds of the model.                                                    *)
(***************************************************************************)
\* largest max_messages a ConversationMemory is constructed with
MaxMessages == 1
\* number of add_message calls followed in the memory specification
MaxAppends == 4
\* largest reading of the wall clock in the memory specification
MaxClock == 1
\* polls of the record_with_vad loop that fit in max_duration = 10.0 s (wake loop)
WakeMaxPolls == 2
\* polls of the record_with_vad loop that fit in max_duration = 30.0 s (a turn)
ConvMaxPolls == 3
\* polls that fit in silence_duration = 2.0 s
SilencePolls == 1
\* polls that fit in min_recording_duration = 1.0 s
MinRecordingPolls == 1
\* chunks the frame queue holds at most
MaxQueue == 1
\* audio_data is counted up to this many chunks ("this many or more")
MaxChunks == 1

\* direct speak_text calls a caller makes
MaxSpoken == 1
\* largest count passed to get_recent_messages
MaxCount == 3
\* pieces an input text is put together from, at most
MaxPieces == 2

Min(a, b) == IF a < b THEN a ELSE b

\* the last n elements of s, in order
LastN(s, n) == SubSeq(s, (Len(s) - n) + 1, Len(s))

(***************************************************************************)
(* Text.                                                                   *)
(***************************************************************************)
UpperChars == <<"A", "B", "C", "D", "E", "F", "G", "H", "I", "J", "K", "L", "M",
                "N", "O", "P", "Q", "R", "S", "T", "U", "V", "W", "X", "Y", "Z">>

LowerChars == <<"a", "b", "c", "d", "e", "f", "g", "h", "i", "j", "k", "l", "m",
                "n", "o", "p", "q", "r", "s", "t", "u", "v", "w", "x", "y", "z">>

\* str.lower() on one character
LowerChar(c) ==
    IF \E i \in 1..Len(UpperChars) : UpperChars[i] = c
    THEN LowerChars[CHOOSE i \in 1..Len(UpperChars) : UpperChars[i] = c]
    ELSE c

\* str.lower()
Lower(s) == [i \in 1..Len(s) |-> LowerChar(s[i])]

\* str.strip(): leading and trailing blanks removed
RECURSIVE LStrip(_)
LStrip(s) == IF s # <<>> /\ Head(s) = " " THEN LStrip(Tail(s)) ELSE s

RECURSIVE RStrip(_)
RStrip(s) ==
    IF s # <<>> /\ s[Len(s)] = " " THEN RStrip(SubSeq(s, 1, Len(s) - 1)) ELSE s

Strip(s) == RStrip(LStrip(s))

\* Python's `sub in s` on strings: sub occurs in s as a contiguous run
Contains(sub, s) ==
    \E i \in 0..(Len(s) - Len(sub)) : SubSeq(s, i + 1, i + Len(sub)) = sub

\* any(phrase in s for phrase in phrases)
ContainsAny(phrases, s) == \E p \in phrases : Contains(p, s)

(***************************************************************************)
(* The texts of the program, character by character.                       *)
(***************************************************************************)
\* Config.WAKE_WORD (the default): "hey assistant"
WAKE_WORD ==
    <<"h", "e", "y", " ", "a", "s", "s", "i", "s", "t", "a", "n", "t">>

\* "Yes, how can I help you?"
WAKE_PROMPT ==
    <<"Y", "e", "s", ",", " ", "h", "o", "w", " ", "c", "a", "n", " ", "I",
      " ", "h", "e", "l", "p", " ", "y", "o", "u", "?">>

\* "I didn't catch that. Please try again."
NO_CATCH_PROMPT ==
    <<"I", " ", "d", "i", "d", "n", "'", "t", " ", "c", "a", "t", "c", "h",
      " ", "t", "h", "a", "t", ".", " ", "P", "l", "e", "a", "s", "e", " ",
      "t", "r", "y", " ", "a", "g", "a", "i", "n", ".">>

\* "I didn't hear anything. Let me know if you need help."
NO_HEAR_PROMPT ==
    <<"I", " ", "d", "i", "d", "n", "'", "t", " ", "h", "e", "a", "r", " ",
      "a", "n", "y", "t", "h", "i", "n", "g", ".", " ", "L", "e", "t", " ",
      "m", "e", " ", "k", "n", "o", "w", " ", "i", "f", " ", "y", "o", "u",
      " ", "n", "e", "e", "d", " ", "h", "e", "l", "p", ".">>

\* "I'm sorry, I encountered an error. Please try again."
ERROR_APOLOGY ==
    <<"I", "'", "m", " ", "s", "o", "r", "r", "y", ",", " ", "I", " ", "e",
      "n", "c", "o", "u", "n", "t", "e", "r", "e", "d", " ", "a", "n", " ",
      "e", "r", "r", "o", "r", ".", " ", "P", "l", "e", "a", "s", "e", " ",
      "t", "r", "y", " ", "a", "g", "a", "i", "n", ".">>

\* "I've cleared our conversation history. How can I help you?"
CLEAR_RESPONSE ==
    <<"I", "'", "v", "e", " ", "c", "l", "e", "a", "r", "e", "d", " ", "o",
      "u", "r", " ", "c", "o", "n", "v", "e", "r", "s", "a", "t", "i", "o",
      "n", " ", "h", "i", "s", "t", "o", "r", "y", ".", " ", "H", "o", "w",
      " ", "c", "a", "n", " ", "I", " ", "h", "e", "l", "p", " ", "y", "o",
      "u", "?">>

\* "Goodbye! Have a great day!"
FAREWELL ==
    <<"G", "o", "o", "d", "b", "y", "e", "!", " ", "H", "a", "v", "e", " ",
      "a", " ", "g", "r", "e", "a", "t", " ", "d", "a", "y", "!">>

\* "I'm doing well, thank you for asking! How can I assist you today?"
STATUS_RESPONSE ==
    <<"I", "'", "m", " ", "d", "o", "i", "n", "g", " ", "w", "e", "l", "l",
      ",", " ", "t", "h", "a", "n", "k", " ", "y", "o", "u", " ", "f", "o",
      "r", " ", "a", "s", "k", "i", "n", "g", "!", " ", "H", "o", "w", " ",
      "c", "a", "n", " ", "I", " ", "a", "s", "s", "i", "s", "t", " ", "y",
      "o", "u", " ", "t", "o", "d", "a", "y", "?">>

\* the help text, a triple-quoted literal with its line breaks and indentation
HELP_TEXT ==
    <<"I", " ", "c", "a", "n", " ", "h", "e", "l", "p", " ", "y", "o", "u",
      " ", "w", "i", "t", "h", ":", "\n", " ", " ", " ", " ", " ", " ", " ",
      " ", " ", " ", " ", " ", "-", " ", "A", "n", "s", "w", "e", "r", "i",
      "n", "g", " ", "q", "u", "e", "s", "t", "i", "o", "n", "s", " ", "a",
      "n", "d", " ", "p", "r", "o", "v", "i", "d", "i", "n", "g", " ", "i",
      "n", "f", "o", "r", "m", "a", "t", "i", "o", "n", "\n", " ", " ", " ",
      " ", " ", " ", " ", " ", " ", " ", " ", " ", "-", " ", "H", "a", "v",
      "i", "n", "g", " ", "c", "o", "n", "v", "e", "r", "s", "a", "t", "i",
      "o", "n", "s", " ", "a", "n", "d", " ", "c", "a", "s", "u", "a", "l",
      " ", "c", "h", "a", "t", "\n", " ", " ", " ", " ", " ", " ", " ", " ",
      " ", " ", " ", " ", "-", " ", "H", "e", "l", "p", "i", "n", "g", " ",
      "w", "i", "t", "h", " ", "t", "a", "s", "k", "s", " ", "a", "n", "d",
      " ", "r", "e", "m", "i", "n", "d", "e", "r", "s", "\n", " ", " ", " ",
      " ", " ", " ", " ", " ", " ", " ", " ", " ", "-", " ", "G", "e", "n",
      "e", "r", "a", "l", " ", "k", "n", "o", "w", "l", "e", "d", "g", "e",
      " ", "a", "n", "d", " ", "e", "x", "p", "l", "a", "n", "a", "t", "i",
      "o", "n", "s", "\n", " ", " ", " ", " ", " ", " ", " ", " ", " ", " ",
      " ", " ", "\n", " ", " ", " ", " ", " ", " ", " ", " ", " ", " ", " ",
      " ", "J", "u", "s", "t", " ", "s", "p", "e", "a", "k", " ", "n", "a",
      "t", "u", "r", "a", "l", "l", "y", " ", "a", "n", "d", " ", "I", "'",
      "l", "l", " ", "d", "o", " ", "m", "y", " ", "b", "e", "s", "t", " ",
      "t", "o", " ", "h", "e", "l", "p", "!">>

\* "I'm sorry, I'm currently experiencing high demand. Please try again in a moment."
RATE_LIMIT_APOLOGY ==
    <<"I", "'", "m", " ", "s", "o", "r", "r", "y", ",", " ", "I", "'", "m",
      " ", "c", "u", "r", "r", "e", "n", "t", "l", "y", " ", "e", "x", "p",
      "e", "r", "i", "e", "n", "c", "i", "n", "g", " ", "h", "i", "g", "h",
      " ", "d", "e", "m", "a", "n", "d", ".", " ", "P", "l", "e", "a", "s",
      "e", " ", "t", "r", "y", " ", "a", "g", "a", "i", "n", " ", "i", "n",
      " ", "a", " ", "m", "o", "m", "e", "n", "t", ".">>

\* "I'm taking too long to respond. Let me try that again."
TIMEOUT_APOLOGY ==
    <<"I", "'", "m", " ", "t", "a", "k", "i", "n", "g", " ", "t", "o", "o",
      " ", "l", "o", "n", "g", " ", "t", "o", " ", "r", "e", "s", "p", "o",
      "n", "d", ".", " ", "L", "e", "t", " ", "m", "e", " ", "t", "r", "y",
      " ", "t", "h", "a", "t", " ", "a", "g", "a", "i", "n", ".">>

\* "I'm experiencing some technical difficulties right now."
API_ERROR_APOLOGY ==
    <<"I", "'", "m", " ", "e", "x", "p", "e", "r", "i", "e", "n", "c", "i",
      "n", "g", " ", "s", "o", "m", "e", " ", "t", "e", "c", "h", "n", "i",
      "c", "a", "l", " ", "d", "i", "f", "f", "i", "c", "u", "l", "t", "i",
      "e", "s", " ", "r", "i", "g", "h", "t", " ", "n", "o", "w", ".">>

\* "I'm sorry, I couldn't process that request."
GENERIC_APOLOGY ==
    <<"I", "'", "m", " ", "s", "o", "r", "r", "y", ",", " ", "I", " ", "c",
      "o", "u", "l", "d", "n", "'", "t", " ", "p", "r", "o", "c", "e", "s",
      "s", " ", "t", "h", "a", "t", " ", "r", "e", "q", "u", "e", "s", "t",
      ".">>

\* the phrases handle_command looks for
P_clear_conversation ==
    <<"c", "l", "e", "a", "r", " ", "c", "o", "n", "v", "e", "r", "s", "a",
      "t", "i", "o", "n">>

P_forget_everything ==
    <<"f", "o", "r", "g", "e", "t", " ", "e", "v", "e", "r", "y", "t", "h",
      "i", "n", "g">>

P_start_over ==
    <<"s", "t", "a", "r", "t", " ", "o", "v", "e", "r">>

P_stop_listening ==
    <<"s", "t", "o", "p", " ", "l", "i", "s", "t", "e", "n", "i", "n", "g">>

P_goodbye ==
    <<"g", "o", "o", "d", "b", "y", "e">>

P_exit ==
    <<"e", "x", "i", "t">>

P_quit ==
    <<"q", "u", "i", "t">>

P_how_are_you ==
    <<"h", "o", "w", " ", "a", "r", "e", " ", "y", "o", "u">>

P_hows_it_going ==
    <<"h", "o", "w", "'", "s", " ", "i", "t", " ", "g", "o", "i", "n", "g">>

P_help ==
    <<"h", "e", "l", "p">>

P_what_can_you_do ==
    <<"w", "h", "a", "t", " ", "c", "a", "n", " ", "y", "o", "u", " ", "d",
      "o">>

CLEAR_PHRASES == {P_clear_conversation, P_forget_everything, P_start_over}

HANDLER_EXIT_PHRASES == {P_stop_listening, P_goodbye, P_exit, P_quit}

STATUS_PHRASES == {P_how_are_you, P_hows_it_going}

\* the phrases _process_user_input looks for after a command
EXIT_PHRASES == {P_goodbye, P_exit, P_quit, P_stop_listening}

(***************************************************************************)
(* What the collaborators may return: the texts Whisper may transcribe     *)
(* (already stripped) and the reply of the chat completion backend.        *)
(***************************************************************************)
\* a transcription holding the wake phrase: "Hey Assistant"
T_wake ==
    <<"H", "e", "y", " ", "A", "s", "s", "i", "s", "t", "a", "n", "t">>

\* a transcription that is no command and no wake phrase: "hi"
T_chat ==
    <<"h", "i">>

\* an exit phrase: "Goodbye"
T_bye ==
    <<"G", "o", "o", "d", "b", "y", "e">>

\* a clear phrase and an exit phrase together: "start over, quit"
T_clear_bye ==
    <<"s", "t", "a", "r", "t", " ", "o", "v", "e", "r", ",", " ", "q", "u",
      "i", "t">>

\* a help command: "help"
T_help ==
    <<"h", "e", "l", "p">>

\* a reply of the chat completion backend: "ok"
REPLY ==
    <<"o", "k">>

T_empty == <<>>

\* words for near misses of the wake phrase: "hey", "assistant", "asistant"
W_hey == <<"h", "e", "y">>

W_assistant == <<"a", "s", "s", "i", "s", "t", "a", "n", "t">>

W_asistant == <<"a", "s", "i", "s", "t", "a", "n", "t">>

Transcripts == {T_empty, T_wake, T_bye, T_clear_bye, T_help}

(***************************************************************************)
(* ConversationMemory.                                                     *)
(***************************************************************************)
Roles == {"user", "assistant"}

\* the dict add_message builds
Message(role, content, timestamp) ==
    [role |-> role, content |-> content, timestamp |-> timestamp]

\* the trim at the end of add_message, dropping from the back instead
TrimKeepsOldest(msgs, maxm) ==
    IF Len(msgs) > maxm * 2 THEN SubSeq(msgs, 1, maxm * 2) ELSE msgs

\* the trim at the end of add_message: messages[messages_to_remove:]
Trim(msgs, maxm) ==
    IF Len(msgs) > maxm * 2
    THEN SubSeq(msgs, (Len(msgs) - maxm * 2) + 1, Len(msgs))
    ELSE msgs

\* ConversationMemory.add_message as a function of the list
AddMessage(msgs, maxm, role, content, timestamp) ==
    Trim(Append(msgs, Message(role, content, timestamp)), maxm)

(***************************************************************************)
(* State.                                                                  *)
(***************************************************************************)
VARIABLES
    \* ConversationMemory
    messages,            \* self.messages
    max_messages,        \* self.max_messages
    start_time,          \* self.start_time, a reading of the clock
    context_data,        \* self.context_data, a set of <<key, value>>
    clock,               \* datetime.now()
    appended,            \* history kept under SpecMem: the messages passed to
                         \* add_message since construction or clear()
    file,                \* what export_to_file last wrote: <<>> or <<data>>
    \* VoiceAssistant
    is_active,
    is_listening,
    wake_word_mode,
    conversation_active,
    callbacks,           \* the callbacks that are not None
    \* AudioRecorder
    is_recording,
    audio_data,          \* number of chunks in self.audio_data
    audio_queue,         \* self.audio_queue, the energy class of each chunk
    \* the threads that call start(): where each is, its local variables, and
    \* what it has done since the top of its loop
    pc,
    loc,
    log

memVars == <<messages, max_messages, start_time, context_data, clock, appended, file>>

flagVars == <<is_active, is_listening, wake_word_mode, conversation_active, callbacks>>

recVars == <<is_recording, audio_data, audio_queue>>

threadVars == <<pc, loc, log>>

orchVars == <<flagVars, recVars, threadVars>>

vars == <<memVars, orchVars>>

Threads == {"t1", "t2", "t3"}

CallbackNames ==
    {"on_wake_word_detected", "on_speech_recognized", "on_response_generated", "on_error"}

\* the local variables of a thread outside any call
NoLocals ==
    [mode |-> TRUE, max_duration |-> 0, ret |-> "", elapsed |-> 0,
     last_speech_time |-> 0, speech_detected |-> FALSE, audio |-> 0,
     text |-> <<>>, response |-> <<>>]

\* VoiceAssistant.__init__, AudioRecorder.__init__, and set_callbacks called with
\* the callbacks cbs
AssistantInit(cbs) ==
    /\ is_active = FALSE
    /\ is_listening = FALSE
    /\ wake_word_mode = TRUE
    /\ conversation_active = FALSE
    /\ callbacks = cbs
    /\ is_recording = FALSE
    /\ audio_data = 0
    /\ audio_queue = <<>>
    /\ pc = [t \in Threads |-> "idle"]
    /\ loc = [t \in Threads |-> NoLocals]
    /\ log = [t \in Threads |-> <<>>]

\* ConversationMemory.__init__ at clock reading 0
MemoryInit(maxm) ==
    /\ max_messages = maxm
    /\ messages = <<>>
    /\ start_time = 0
    /\ context_data = {}
    /\ clock = 0
    /\ appended = <<>>
    /\ file = <<>>

(***************************************************************************)
(* The memory on its own: any sequence of add_message and clear calls,     *)
(* the clock advancing between them.                                       *)
(***************************************************************************)
Contents == {T_chat, REPLY}

\* ConversationMemory.add_message(role, content), timestamp = datetime.now()
MemAddMessage(role, content) ==
    /\ Len(appended) < MaxAppends
    /\ messages' = AddMessage(messages, max_messages, role, content, clock)
    /\ appended' = Append(appended, Message(role, content, clock))
    /\ UNCHANGED <<max_messages, start_time, context_data, clock, file, orchVars>>

\* clear() that forgets self.context_data.clear()
MemClearKeepsContext ==
    /\ messages' = <<>>
    /\ start_time' = clock
    /\ appended' = <<>>
    /\ UNCHANGED <<max_messages, context_data, clock, file, orchVars>>

\* ConversationMemory.clear()
MemClear ==
    /\ messages' = <<>>
    /\ start_time' = clock
    /\ context_data' = {}
    /\ appended' = <<>>
    /\ UNCHANGED <<max_messages, clock, file, orchVars>>

\* time passes
ClockTick ==
    /\ clock < MaxClock
    /\ clock' = clock + 1
    /\ UNCHANGED <<messages, max_messages, start_time, context_data, appended, file, orchVars>>

InitMem == AssistantInit({}) /\ \E maxm \in 0..MaxMessages : MemoryInit(maxm)

NextMem ==
    \/ \E role \in Roles, content \in Contents : MemAddMessage(role, content)
    \/ MemClear
    \/ ClockTick

SpecMem == InitMem /\ [][NextMem]_vars

(***************************************************************************)
(* The memory and the file it exports to and imports from.  The clock      *)
(* ticks TicksPerSecond times a second; datetime values are clock          *)
(* readings, and a "%Y-%m-%d %H:%M:%S" string is a count of whole seconds. *)
(***************************************************************************)
TicksPerSecond == 2

\* self.start_time.strftime("%Y-%m-%d %H:%M:%S") in get_start_time
get_start_time(st) == st \div TicksPerSecond

\* datetime.fromisoformat of such a string
fromisoformat(seconds) == seconds * TicksPerSecond

\* the number of messages of the role
CountRole(msgs, role) == Cardinality({i \in 1..Len(msgs) : msgs[i].role = role})

\* get_conversation_stats(), the clock reading now
get_conversation_stats(msgs, st, now) ==
    [total_messages |-> Len(msgs),
     user_messages |-> CountRole(msgs, "user"),
     assistant_messages |-> CountRole(msgs, "assistant"),
     start_time |-> get_start_time(st),
     duration_minutes |-> now - st]

\* export_data in export_to_file; json.dump and json.load leave its strings,
\* numbers, lists and string-keyed dicts as they are
export_data(msgs, ctx, st, now) ==
    [start_time |-> get_start_time(st),
     stats |-> get_conversation_stats(msgs, st, now),
     context |-> ctx,
     messages |-> msgs]

ContextKeys == {"topic"}

ContextValues == {"a", "b"}

\* add_context(key, value): self.context_data[key] = value
MemAddContext(key, value) ==
    /\ context_data' = {kv \in context_data : kv[1] # key} \cup {<<key, value>>}
    /\ UNCHANGED <<messages, max_messages, start_time, clock, appended, file, orchVars>>

\* export_to_file(filename)
MemExport ==
    /\ file' = <<export_data(messages, context_data, start_time, clock)>>
    /\ UNCHANGED <<messages, max_messages, start_time, context_data, clock, appended,
                   orchVars>>

\* import_from_file(filename) of a file export_to_file wrote: clear(), then the
\* three keys of the file, all present, are taken over.  (With no file the open
\* raises, the except clause prints, and nothing changes.)
MemImport ==
    /\ file # <<>>
    /\ LET data == file[1] IN
       /\ messages' = data.messages
       /\ context_data' = data.context
       /\ start_time' = fromisoformat(data.start_time)
    /\ appended' = <<>>
    /\ UNCHANGED <<max_messages, clock, file, orchVars>>

NextFile ==
    \/ MemAddMessage("user", T_chat)
    \/ \E key \in ContextKeys, value \in ContextValues : MemAddContext(key, value)
    \/ MemClear
    \/ ClockTick
    \/ MemExport
    \/ MemImport

SpecFile == InitMem /\ [][NextFile]_vars

(***************************************************************************)
(* Pure parts of the collaborators.                                        *)
(***************************************************************************)
\* detect_wake_word that forgets text.lower()
detect_wake_word_cased(text) == Contains(Lower(WAKE_WORD), text)

\* SpeechToText.detect_wake_word
detect_wake_word(text) == Contains(Lower(WAKE_WORD), Lower(text))

\* handle_command that looks for the exit phrases before the clear phrases
handle_command_exit_first(user_input) ==
    LET user_input_lower == Strip(Lower(user_input)) IN
    IF ContainsAny(HANDLER_EXIT_PHRASES, user_input_lower)
    THEN [response |-> FAREWELL, is_command |-> TRUE, clears |-> FALSE]
    ELSE IF ContainsAny(CLEAR_PHRASES, user_input_lower)
    THEN [response |-> CLEAR_RESPONSE, is_command |-> TRUE, clears |-> TRUE]
    ELSE IF ContainsAny(STATUS_PHRASES, user_input_lower)
    THEN [response |-> STATUS_RESPONSE, is_command |-> TRUE, clears |-> FALSE]
    ELSE IF Contains(P_help, user_input_lower)
            \/ Contains(P_what_can_you_do, user_input_lower)
    THEN [response |-> HELP_TEXT, is_command |-> TRUE, clears |-> FALSE]
    ELSE [response |-> <<>>, is_command |-> FALSE, clears |-> FALSE]

\* ChatHandler.handle_command: the tuple it returns, and whether it calls
\* self.memory.clear() on the way
handle_command(user_input) ==
    LET user_input_lower == Strip(Lower(user_input)) IN
    IF ContainsAny(CLEAR_PHRASES, user_input_lower)
    THEN [response |-> CLEAR_RESPONSE, is_command |-> TRUE, clears |-> TRUE]
    ELSE IF ContainsAny(HANDLER_EXIT_PHRASES, user_input_lower)
    THEN [response |-> FAREWELL, is_command |-> TRUE, clears |-> FALSE]
    ELSE IF ContainsAny(STATUS_PHRASES, user_input_lower)
    THEN [response |-> STATUS_RESPONSE, is_command |-> TRUE, clears |-> FALSE]
    ELSE IF Contains(P_help, user_input_lower)
            \/ Contains(P_what_can_you_do, user_input_lower)
    THEN [response |-> HELP_TEXT, is_command |-> TRUE, clears |-> FALSE]
    ELSE [response |-> <<>>, is_command |-> FALSE, clears |-> FALSE]

\* how a call of the chat completion backend may end
BackendOutcomes == {"ok", "RateLimitError", "APITimeoutError", "APIError", "Exception"}

\* ChatHandler.get_response: what it returns for each way the backend call ends
get_response_result(outcome) ==
    CASE outcome = "ok" -> REPLY
      [] outcome = "RateLimitError" -> RATE_LIMIT_APOLOGY
      [] outcome = "APITimeoutError" -> TIMEOUT_APOLOGY
      [] outcome = "APIError" -> API_ERROR_APOLOGY
      [] OTHER -> GENERIC_APOLOGY

\* SpeechToText.transcribe_audio: the text Whisper heard, or "" from the except
\* branch when the backend raised
transcribe_audio(ok, heard) == IF ok THEN heard ELSE <<>>

(***************************************************************************)
(* Steps of a thread.                                                      *)
(***************************************************************************)
Goto(t, label) == pc' = [pc EXCEPT ![t] = label]

Event(ev, arg) == [ev |-> ev, arg |-> arg]

Logged(t, ev, arg) == log' = [log EXCEPT ![t] = Append(@, Event(ev, arg))]

\* an exception raised inside _process_user_input lands in the except clause of
\* _start_conversation (wake word mode) or of _start_continuous_listening
RaiseTarget(t) == IF loc[t].mode THEN "sc_except" ELSE "cl_except"

\* where _process_user_input returns to
ReturnTarget(t) == IF loc[t].mode THEN "sc_finally" ELSE "cl_sleep"

\* a registered callback is called and returns or raises; None is skipped
CallCallback(t, name, arg, onReturn, onRaise) ==
    IF name \in callbacks
    THEN \E raises \in BOOLEAN :
            /\ log' = [log EXCEPT ![t] =
                 @ \o (IF raises THEN <<Event(name, arg), Event("raise", <<>>)>>
                       ELSE <<Event(name, arg)>>)]
            /\ Goto(t, IF raises THEN onRaise ELSE onReturn)
    ELSE Goto(t, onReturn) /\ UNCHANGED log

\* VoiceAssistant.start(wake_word_mode) is called
StartCall(t, mode) ==
    /\ pc[t] = "idle"
    /\ Goto(t, "start")
    /\ loc' = [loc EXCEPT ![t] = [NoLocals EXCEPT !.mode = mode]]
    /\ log' = [log EXCEPT ![t] = <<>>]
    /\ UNCHANGED <<memVars, flagVars, recVars>>

\* start that takes no notice of is_active
StartCheckIgnoresActive(t) ==
    /\ pc[t] = "start"
    /\ Goto(t, "start_set")
    /\ UNCHANGED <<memVars, flagVars, recVars, loc, log>>

\* start: `if self.is_active: print("Assistant is already running"); return`
StartCheck(t) ==
    /\ pc[t] = "start"
    /\ IF is_active
       THEN /\ Goto(t, "idle")
            /\ loc' = [loc EXCEPT ![t] = NoLocals]
            /\ Logged(t, "already_running", <<>>)
       ELSE Goto(t, "start_set") /\ UNCHANGED <<loc, log>>
    /\ UNCHANGED <<memVars, flagVars, recVars>>

\* start: is_active = True, wake_word_mode = wake_word_mode, and into the loop
StartSet(t) ==
    /\ pc[t] = "start_set"
    /\ is_active' = TRUE
    /\ wake_word_mode' = loc[t].mode
    /\ Goto(t, IF loc[t].mode THEN "wl_head" ELSE "cl_head")
    /\ UNCHANGED <<memVars, is_listening, conversation_active, callbacks, recVars,
                   loc, log>>

\* VoiceAssistant.stop(), called by any other thread: stt.stop_listening() has no
\* thread to join and player.stop_playback() touches the player alone. The log
\* of a thread that is inside record_with_vad notes the first such call.
Stop ==
    /\ is_active' = FALSE
    /\ is_listening' = FALSE
    /\ log' = [t \in Threads |->
                IF pc[t] = "rec" /\ \A i \in 1..Len(log[t]) : log[t][i].ev # "stop_called"
                THEN Append(log[t], Event("stop_called", <<>>))
                ELSE log[t]]
    /\ UNCHANGED <<memVars, wake_word_mode, conversation_active, callbacks, recVars,
                   pc, loc>>

\* stop() statement by statement, for the callers that run it side by side.
\* stop() is called
StopCall(t) ==
    /\ pc[t] = "idle"
    /\ Goto(t, "stop_active")
    /\ log' = [log EXCEPT ![t] = <<>>]
    /\ UNCHANGED <<memVars, flagVars, recVars, loc>>

\* stop() that leaves is_active alone
StopKeepsActive(t) ==
    /\ pc[t] = "stop_active"
    /\ Goto(t, "stop_listening")
    /\ UNCHANGED <<memVars, flagVars, recVars, loc, log>>

\* `self.is_active = False`
StopSetActive(t) ==
    /\ pc[t] = "stop_active"
    /\ is_active' = FALSE
    /\ Goto(t, "stop_listening")
    /\ UNCHANGED <<memVars, is_listening, wake_word_mode, conversation_active,
                   callbacks, recVars, loc, log>>

\* `self.is_listening = False`
StopSetListening(t) ==
    /\ pc[t] = "stop_listening"
    /\ is_listening' = FALSE
    /\ Goto(t, "stop_stt")
    /\ UNCHANGED <<memVars, is_active, wake_word_mode, conversation_active,
                   callbacks, recVars, loc, log>>

\* self.stt.stop_listening(): its recording_thread is None, the assistant never
\* calls start_listening, so there is no thread to join
StopListening(t) ==
    /\ pc[t] = "stop_stt"
    /\ Goto(t, "stop_player")
    /\ UNCHANGED <<memVars, flagVars, recVars, loc, log>>

\* self.player.stop_playback(): sd.stop() may raise, the except clause prints;
\* current_thread is None, the assistant plays synchronously; then the print
\* at the end of stop()
StopPlayback(t) ==
    /\ pc[t] = "stop_player"
    /\ \E raised \in BOOLEAN :
         log' = [log EXCEPT ![t] =
                   @ \o (IF raised THEN <<Event("playback_error", <<>>)>> ELSE <<>>)
                     \o <<Event("stopped", <<>>)>>]
    /\ Goto(t, "idle")
    /\ UNCHANGED <<memVars, flagVars, recVars, loc>>

StopStep(t) ==
    \/ StopCall(t)
    \/ StopSetActive(t)
    \/ StopSetListening(t)
    \/ StopListening(t)
    \/ StopPlayback(t)

(***************************************************************************)
(* AudioRecorder.                                                          *)
(***************************************************************************)
\* `if self.on_speech_detected: self.on_speech_detected()` and the like: the
\* recorder's callback is called when one is set
Fire(t, name) ==
    log' = IF name \in callbacks
           THEN [log EXCEPT ![t] = Append(@, Event(name, <<>>))]
           ELSE log

\* record_with_vad up to its loop: start_recording(), then the three locals
RecordBegin(t, max_duration, ret) ==
    /\ IF is_recording
       THEN UNCHANGED <<is_recording, audio_data>>
       ELSE is_recording' = TRUE /\ audio_data' = 0
    /\ loc' = [loc EXCEPT ![t].max_duration = max_duration, ![t].ret = ret,
                          ![t].elapsed = 0, ![t].last_speech_time = 0,
                          ![t].speech_detected = FALSE]
    /\ Goto(t, "rec")
    /\ UNCHANGED audio_queue

\* the loop of record_with_vad taking the silence end without asking whether
\* speech was detected
RecordPollNoOnset(t) ==
    /\ pc[t] = "rec"
    /\ LET l == loc[t]
           slept == [l EXCEPT !.elapsed = l.elapsed + 1] IN
       IF is_recording /\ l.elapsed < l.max_duration
       THEN IF audio_queue # <<>>
            THEN /\ audio_queue' = Tail(audio_queue)
                 /\ IF Head(audio_queue) = "loud"
                    THEN /\ loc' = [loc EXCEPT ![t] =
                                      [slept EXCEPT !.last_speech_time = l.elapsed,
                                                    !.speech_detected = TRUE]]
                         /\ IF l.speech_detected
                            THEN UNCHANGED log
                            ELSE Fire(t, "on_speech_detected")
                         /\ UNCHANGED pc
                    ELSE IF /\ TRUE
                            /\ l.elapsed - l.last_speech_time > SilencePolls
                            /\ l.elapsed > MinRecordingPolls
                         THEN /\ Goto(t, "rec_stop")
                              /\ Fire(t, "on_silence_detected")
                              /\ UNCHANGED loc
                         ELSE /\ loc' = [loc EXCEPT ![t] = slept]
                              /\ UNCHANGED <<pc, log>>
            ELSE /\ loc' = [loc EXCEPT ![t] = slept]
                 /\ UNCHANGED <<pc, audio_queue, log>>
       ELSE Goto(t, "rec_stop") /\ UNCHANGED <<loc, audio_queue, log>>
    /\ UNCHANGED <<memVars, flagVars, is_recording, audio_data>>

\* the loop of record_with_vad calling on_speech_detected at every chunk above
\* the threshold
RecordPollRepeatsOnset(t) ==
    /\ pc[t] = "rec"
    /\ LET l == loc[t]
           slept == [l EXCEPT !.elapsed = l.elapsed + 1] IN
       IF is_recording /\ l.elapsed < l.max_duration
       THEN IF audio_queue # <<>>
            THEN /\ audio_queue' = Tail(audio_queue)
                 /\ IF Head(audio_queue) = "loud"
                    THEN /\ loc' = [loc EXCEPT ![t] =
                                      [slept EXCEPT !.last_speech_time = l.elapsed,
                                                    !.speech_detected = TRUE]]
                         /\ Fire(t, "on_speech_detected")
                         /\ UNCHANGED pc
                    ELSE IF /\ l.speech_detected
                            /\ l.elapsed - l.last_speech_time > SilencePolls
                            /\ l.elapsed > MinRecordingPolls
                         THEN /\ Goto(t, "rec_stop")
                              /\ Fire(t, "on_silence_detected")
                              /\ UNCHANGED loc
                         ELSE /\ loc' = [loc EXCEPT ![t] = slept]
                              /\ UNCHANGED <<pc, log>>
            ELSE /\ loc' = [loc EXCEPT ![t] = slept]
                 /\ UNCHANGED <<pc, audio_queue, log>>
       ELSE Goto(t, "rec_stop") /\ UNCHANGED <<loc, audio_queue, log>>
    /\ UNCHANGED <<memVars, flagVars, is_recording, audio_data>>

\* one turn of the loop of record_with_vad, ending in sleep(0.1), or leaving it
RecordPoll(t) ==
    /\ pc[t] = "rec"
    /\ LET l == loc[t]
           slept == [l EXCEPT !.elapsed = l.elapsed + 1] IN
       IF is_recording /\ l.elapsed < l.max_duration
       THEN IF audio_queue # <<>>
            THEN /\ audio_queue' = Tail(audio_queue)
                 /\ IF Head(audio_queue) = "loud"
                    THEN /\ loc' = [loc EXCEPT ![t] =
                                      [slept EXCEPT !.last_speech_time = l.elapsed,
                                                    !.speech_detected = TRUE]]
                         /\ IF l.speech_detected
                            THEN UNCHANGED log
                            ELSE Fire(t, "on_speech_detected")
                         /\ UNCHANGED pc
                    ELSE IF /\ l.speech_detected
                            /\ l.elapsed - l.last_speech_time > SilencePolls
                            /\ l.elapsed > MinRecordingPolls
                         THEN /\ Goto(t, "rec_stop")
                              /\ Fire(t, "on_silence_detected")
                              /\ UNCHANGED loc
                         ELSE /\ loc' = [loc EXCEPT ![t] = slept]
                              /\ UNCHANGED <<pc, log>>
            ELSE /\ loc' = [loc EXCEPT ![t] = slept]
                 /\ UNCHANGED <<pc, audio_queue, log>>
       ELSE Goto(t, "rec_stop") /\ UNCHANGED <<loc, audio_queue, log>>
    /\ UNCHANGED <<memVars, flagVars, is_recording, audio_data>>

\* stop_recording() at the end of record_with_vad: the array it returns
RecordStop(t) ==
    /\ pc[t] = "rec_stop"
    /\ is_recording' = FALSE
    /\ loc' = [loc EXCEPT ![t].audio = audio_data, ![t].max_duration = 0,
                          ![t].ret = "", ![t].elapsed = 0,
                          ![t].last_speech_time = 0, ![t].speech_detected = FALSE]
    /\ Goto(t, loc[t].ret)
    /\ UNCHANGED <<memVars, flagVars, audio_data, audio_queue, log>>

\* _audio_callback, on the capture thread: one chunk of the given energy class
AudioCallback(energy) ==
    /\ is_recording
    /\ Len(audio_queue) < MaxQueue
    /\ audio_data' = Min(audio_data + 1, MaxChunks)
    /\ audio_queue' = Append(audio_queue, energy)
    /\ UNCHANGED <<memVars, flagVars, is_recording, threadVars>>

\* _recording_loop: the input stream raises while thread t records; the except
\* clause prints and clears is_recording
CaptureError(t) ==
    /\ pc[t] = "rec"
    /\ is_recording
    /\ is_recording' = FALSE
    /\ Logged(t, "capture_error", <<>>)
    /\ UNCHANGED <<memVars, flagVars, audio_data, audio_queue, pc, loc>>

(***************************************************************************)
(* VoiceAssistant._listen_for_wake_word.                                   *)
(***************************************************************************)
\* `while self.is_active:`; when it fails start() returns
WakeLoopHead(t) ==
    /\ pc[t] = "wl_head"
    /\ IF is_active
       THEN Goto(t, "wl_try") /\ UNCHANGED loc
       ELSE Goto(t, "idle") /\ loc' = [loc EXCEPT ![t] = NoLocals]
    /\ log' = [log EXCEPT ![t] = <<>>]
    /\ UNCHANGED <<memVars, flagVars, recVars>>

\* `if not self.conversation_active:` and the call of record_with_vad(10.0)
WakeLoopTry(t) ==
    /\ pc[t] = "wl_try"
    /\ IF ~conversation_active
       THEN RecordBegin(t, WakeMaxPolls, "wl_audio")
       ELSE Goto(t, "wl_sleep") /\ UNCHANGED <<recVars, loc>>
    /\ UNCHANGED <<memVars, flagVars, log>>

\* `if len(audio_data) > 0:`
WakeLoopAudio(t) ==
    /\ pc[t] = "wl_audio"
    /\ Goto(t, IF loc[t].audio > 0 THEN "wl_stt" ELSE "wl_sleep")
    /\ UNCHANGED <<memVars, flagVars, recVars, loc, log>>

\* a wake loop that takes any non-empty text for the wake word
WakeLoopTranscribeAnyText(t) ==
    /\ pc[t] = "wl_stt"
    /\ \E ok \in BOOLEAN, heard \in Transcripts :
         LET text == transcribe_audio(ok, heard) IN
         /\ loc' = [loc EXCEPT ![t].text = text]
         /\ Logged(t, IF ok THEN "transcribed" ELSE "transcribe_error", text)
         /\ Goto(t, IF text # <<>> THEN "hw_set" ELSE "wl_sleep")
    /\ UNCHANGED <<memVars, flagVars, recVars>>

\* transcribe_audio and the wake word test
WakeLoopTranscribe(t) ==
    /\ pc[t] = "wl_stt"
    /\ \E ok \in BOOLEAN, heard \in Transcripts :
         LET text == transcribe_audio(ok, heard) IN
         /\ loc' = [loc EXCEPT ![t].text = text]
         /\ Logged(t, IF ok THEN "transcribed" ELSE "transcribe_error", text)
         /\ Goto(t, IF text # <<>> /\ detect_wake_word(text) THEN "hw_set"
                    ELSE "wl_sleep")
    /\ UNCHANGED <<memVars, flagVars, recVars>>

\* time.sleep(0.1) at the end of the try block
WakeLoopSleep(t) ==
    /\ pc[t] = "wl_sleep"
    /\ Logged(t, "sleep_0.1", <<>>)
    /\ Goto(t, "wl_head")
    /\ loc' = [loc EXCEPT ![t].audio = 0, ![t].text = <<>>, ![t].response = <<>>]
    /\ UNCHANGED <<memVars, flagVars, recVars>>

\* `except Exception as e:` of the wake loop: on_error(e), then time.sleep(1);
\* when on_error raises, the exception leaves the loop and start()
WakeLoopExcept(t) ==
    /\ pc[t] = "wl_except"
    /\ CallCallback(t, "on_error", <<>>, "wl_backoff", "crashed")
    /\ loc' = [loc EXCEPT ![t].audio = 0, ![t].text = <<>>, ![t].response = <<>>]
    /\ UNCHANGED <<memVars, flagVars, recVars>>

WakeLoopBackoff(t) ==
    /\ pc[t] = "wl_backoff"
    /\ Logged(t, "sleep_1", <<>>)
    /\ Goto(t, "wl_head")
    /\ UNCHANGED <<memVars, flagVars, recVars, loc>>

\* the exception reaches the caller of start(): the thread that ran the loop ends
Unwind(t) ==
    /\ pc[t] = "crashed"
    /\ Goto(t, "idle")
    /\ loc' = [loc EXCEPT ![t] = NoLocals]
    /\ log' = [log EXCEPT ![t] = <<>>]
    /\ UNCHANGED <<memVars, flagVars, recVars>>

(***************************************************************************)
(* VoiceAssistant._handle_wake_word_detected.                              *)
(***************************************************************************)
\* self.conversation_active = True
WakeSet(t) ==
    /\ pc[t] = "hw_set"
    /\ conversation_active' = TRUE
    /\ Goto(t, "hw_tone")
    /\ UNCHANGED <<memVars, is_active, is_listening, wake_word_mode, callbacks,
                   recVars, loc, log>>

\* self.player.play_notification_sound()
WakeTone(t) ==
    /\ pc[t] = "hw_tone"
    /\ Logged(t, "tone", <<>>)
    /\ Goto(t, "hw_prompt")
    /\ UNCHANGED <<memVars, flagVars, recVars, loc>>

\* self.tts.speak("Yes, how can I help you?")
WakePrompt(t) ==
    /\ pc[t] = "hw_prompt"
    /\ Logged(t, "speak", WAKE_PROMPT)
    /\ Goto(t, "hw_cb")
    /\ UNCHANGED <<memVars, flagVars, recVars, loc>>

\* `if self.on_wake_word_detected: self.on_wake_word_detected()`
WakeCallback(t) ==
    /\ pc[t] = "hw_cb"
    /\ CallCallback(t, "on_wake_word_detected", <<>>, "sc_start", "wl_except")
    /\ UNCHANGED <<memVars, flagVars, recVars, loc>>

(***************************************************************************)
(* VoiceAssistant._start_conversation.                                     *)
(***************************************************************************)
\* the call of record_with_vad(30.0)
ConversationStart(t) ==
    /\ pc[t] = "sc_start"
    /\ RecordBegin(t, ConvMaxPolls, "sc_audio")
    /\ Logged(t, "record_turn", <<>>)
    /\ UNCHANGED <<memVars, flagVars>>

\* `if len(audio_data) > 0:`, else the "didn't hear anything" prompt
ConversationAudio(t) ==
    /\ pc[t] = "sc_audio"
    /\ IF loc[t].audio > 0
       THEN Goto(t, "sc_stt") /\ UNCHANGED log
       ELSE Goto(t, "sc_finally") /\ Logged(t, "speak", NO_HEAR_PROMPT)
    /\ UNCHANGED <<memVars, flagVars, recVars, loc>>

\* _start_conversation handing every transcription, empty or not, to
\* _process_user_input
ConversationTranscribeProcessesEmpty(t) ==
    /\ pc[t] = "sc_stt"
    /\ \E ok \in BOOLEAN, heard \in Transcripts :
         LET text == transcribe_audio(ok, heard) IN
         /\ loc' = [loc EXCEPT ![t].text = text]
         /\ Goto(t, "pi_cb")
         /\ Logged(t, IF ok THEN "transcribed" ELSE "transcribe_error", text)
    /\ UNCHANGED <<memVars, flagVars, recVars>>

\* transcribe_audio; `if user_input:`, else the "didn't catch that" prompt
ConversationTranscribe(t) ==
    /\ pc[t] = "sc_stt"
    /\ \E ok \in BOOLEAN, heard \in Transcripts :
         LET text == transcribe_audio(ok, heard) IN
         /\ loc' = [loc EXCEPT ![t].text = text]
         /\ IF text # <<>>
            THEN /\ Goto(t, "pi_cb")
                 /\ Logged(t, "transcribed", text)
            ELSE /\ Goto(t, "sc_finally")
                 /\ log' = [log EXCEPT ![t] =
                      @ \o <<Event(IF ok THEN "transcribed" ELSE "transcribe_error",
                                   text),
                             Event("speak", NO_CATCH_PROMPT)>>]
    /\ UNCHANGED <<memVars, flagVars, recVars>>

\* `except Exception as e:`: the spoken apology
ConversationExcept(t) ==
    /\ pc[t] = "sc_except"
    /\ Logged(t, "speak", ERROR_APOLOGY)
    /\ Goto(t, "sc_except_cb")
    /\ UNCHANGED <<memVars, flagVars, recVars, loc>>

\* `if self.on_error: self.on_error(e)` inside the except clause
ConversationExceptCallback(t) ==
    /\ pc[t] = "sc_except_cb"
    /\ CallCallback(t, "on_error", <<>>, "sc_finally", "sc_finally_raise")
    /\ UNCHANGED <<memVars, flagVars, recVars, loc>>

\* `finally: self.conversation_active = False`, then back in the wake loop, or on
\* to its except clause with the exception on_error raised
ConversationFinally(t) ==
    /\ pc[t] \in {"sc_finally", "sc_finally_raise"}
    /\ conversation_active' = FALSE
    /\ Goto(t, IF pc[t] = "sc_finally" THEN "wl_sleep" ELSE "wl_except")
    /\ UNCHANGED <<memVars, is_active, is_listening, wake_word_mode, callbacks,
                   recVars, loc, log>>

(***************************************************************************)
(* VoiceAssistant._start_continuous_listening.                             *)
(***************************************************************************)
\* `while self.is_active:`; when it fails start() returns
ContinuousHead(t) ==
    /\ pc[t] = "cl_head"
    /\ IF is_active
       THEN Goto(t, "cl_try") /\ UNCHANGED loc
       ELSE Goto(t, "idle") /\ loc' = [loc EXCEPT ![t] = NoLocals]
    /\ log' = [log EXCEPT ![t] = <<>>]
    /\ UNCHANGED <<memVars, flagVars, recVars>>

\* the call of record_with_vad(30.0)
ContinuousTry(t) ==
    /\ pc[t] = "cl_try"
    /\ RecordBegin(t, ConvMaxPolls, "cl_audio")
    /\ UNCHANGED <<memVars, flagVars, log>>

\* `if len(audio_data) > 0:`
ContinuousAudio(t) ==
    /\ pc[t] = "cl_audio"
    /\ Goto(t, IF loc[t].audio > 0 THEN "cl_stt" ELSE "cl_sleep")
    /\ UNCHANGED <<memVars, flagVars, recVars, loc, log>>

\* transcribe_audio; `if user_input:`
ContinuousTranscribe(t) ==
    /\ pc[t] = "cl_stt"
    /\ \E ok \in BOOLEAN, heard \in Transcripts :
         LET text == transcribe_audio(ok, heard) IN
         /\ loc' = [loc EXCEPT ![t].text = text]
         /\ Logged(t, IF ok THEN "transcribed" ELSE "transcribe_error", text)
         /\ Goto(t, IF text # <<>> THEN "pi_cb" ELSE "cl_sleep")
    /\ UNCHANGED <<memVars, flagVars, recVars>>

\* time.sleep(0.5) at the end of the try block
ContinuousSleep(t) ==
    /\ pc[t] = "cl_sleep"
    /\ Logged(t, "sleep_0.5", <<>>)
    /\ Goto(t, "cl_head")
    /\ loc' = [loc EXCEPT ![t].audio = 0, ![t].text = <<>>, ![t].response = <<>>]
    /\ UNCHANGED <<memVars, flagVars, recVars>>

\* `except Exception as e:` of the continuous loop: on_error(e), time.sleep(1)
ContinuousExcept(t) ==
    /\ pc[t] = "cl_except"
    /\ CallCallback(t, "on_error", <<>>, "cl_backoff", "crashed")
    /\ loc' = [loc EXCEPT ![t].audio = 0, ![t].text = <<>>, ![t].response = <<>>]
    /\ UNCHANGED <<memVars, flagVars, recVars>>

ContinuousBackoff(t) ==
    /\ pc[t] = "cl_backoff"
    /\ Logged(t, "sleep_1", <<>>)
    /\ Goto(t, "cl_head")
    /\ UNCHANGED <<memVars, flagVars, recVars, loc>>

(***************************************************************************)
(* VoiceAssistant._process_user_input and ChatHandler.get_response.        *)
(***************************************************************************)
\* `if self.on_speech_recognized: self.on_speech_recognized(user_input)`
ProcessSpeechCallback(t) ==
    /\ pc[t] = "pi_cb"
    /\ CallCallback(t, "on_speech_recognized", loc[t].text, "pi_cmd", RaiseTarget(t))
    /\ UNCHANGED <<memVars, flagVars, recVars, loc>>

\* self.chat.handle_command(user_input) and the branch on is_command and on
\* the exit phrases
ProcessCommand(t) ==
    /\ pc[t] = "pi_cmd"
    /\ LET cmd == handle_command(loc[t].text) IN
       /\ IF cmd.clears
          THEN /\ messages' = <<>>
               /\ start_time' = clock
               /\ context_data' = {}
          ELSE UNCHANGED <<messages, start_time, context_data>>
       /\ IF cmd.is_command
          THEN /\ loc' = [loc EXCEPT ![t].response = cmd.response]
               /\ Logged(t, "command", cmd.response)
               /\ Goto(t, IF ContainsAny(EXIT_PHRASES, Lower(loc[t].text))
                          THEN "pi_exit_speak" ELSE "pi_response_cb")
          ELSE /\ Goto(t, "pi_respond")
               /\ UNCHANGED <<loc, log>>
    /\ UNCHANGED <<max_messages, clock, appended, file, flagVars, recVars>>

\* the exit branch: self.tts.speak(response)
ProcessExitSpeak(t) ==
    /\ pc[t] = "pi_exit_speak"
    /\ Logged(t, "speak", loc[t].response)
    /\ Goto(t, "pi_exit_stop")
    /\ UNCHANGED <<memVars, flagVars, recVars, loc>>

\* the exit branch: self.stop() and return
ProcessExitStop(t) ==
    /\ pc[t] = "pi_exit_stop"
    /\ is_active' = FALSE
    /\ is_listening' = FALSE
    /\ Logged(t, "stop", <<>>)
    /\ Goto(t, ReturnTarget(t))
    /\ UNCHANGED <<memVars, wake_word_mode, conversation_active, callbacks, recVars,
                   loc>>

\* get_response that calls the backend before anything is added to memory
RespondSkipsUser(t) ==
    /\ pc[t] = "pi_respond"
    /\ Goto(t, "pi_backend")
    /\ UNCHANGED <<memVars, flagVars, recVars, loc, log>>

\* get_response: self.memory.add_message("user", user_input)
RespondAddUser(t) ==
    /\ pc[t] = "pi_respond"
    /\ messages' = AddMessage(messages, max_messages, "user", loc[t].text, clock)
    /\ Goto(t, "pi_backend")
    /\ UNCHANGED <<max_messages, start_time, context_data, clock, appended, file,
                   flagVars, recVars, loc, log>>

\* get_response with a backend failure recorded as an assistant message
RespondBackendStoresApology(t) ==
    /\ pc[t] = "pi_backend"
    /\ \E outcome \in BackendOutcomes :
         /\ messages' = AddMessage(messages, max_messages, "assistant",
                                   Strip(get_response_result(outcome)), clock)
         /\ loc' = [loc EXCEPT ![t].response = get_response_result(outcome)]
         /\ Logged(t, IF outcome = "ok" THEN "responded" ELSE "respond_error",
                   get_response_result(outcome))
    /\ Goto(t, "pi_response_cb")
    /\ UNCHANGED <<max_messages, start_time, context_data, clock, appended, file,
                   flagVars, recVars>>

\* get_response: the backend call; its reply goes to memory and is returned, a
\* failure returns the apology of its except clause
RespondBackend(t) ==
    /\ pc[t] = "pi_backend"
    /\ \E outcome \in BackendOutcomes :
         /\ IF outcome = "ok"
            THEN messages' = AddMessage(messages, max_messages, "assistant",
                                        Strip(REPLY), clock)
            ELSE UNCHANGED messages
         /\ loc' = [loc EXCEPT ![t].response = get_response_result(outcome)]
         /\ Logged(t, IF outcome = "ok" THEN "responded" ELSE "respond_error",
                   get_response_result(outcome))
    /\ Goto(t, "pi_response_cb")
    /\ UNCHANGED <<max_messages, start_time, context_data, clock, appended, file,
                   flagVars, recVars>>

\* `if self.on_response_generated: self.on_response_generated(response)`
ProcessResponseCallback(t) ==
    /\ pc[t] = "pi_response_cb"
    /\ CallCallback(t, "on_response_generated", loc[t].response, "pi_speak",
                    RaiseTarget(t))
    /\ UNCHANGED <<memVars, flagVars, recVars, loc>>

\* self.tts.speak(response) and return
ProcessSpeak(t) ==
    /\ pc[t] = "pi_speak"
    /\ Logged(t, "speak", loc[t].response)
    /\ Goto(t, ReturnTarget(t))
    /\ UNCHANGED <<memVars, flagVars, recVars, loc>>

(***************************************************************************)
(* The assistant: one thread calls start(), any other thread may call      *)
(* stop(), the capture thread delivers chunks.                             *)
(***************************************************************************)
ThreadStep(t) ==
    \/ \E mode \in BOOLEAN : StartCall(t, mode)
    \/ StartCheck(t)
    \/ StartSet(t)
    \/ RecordPoll(t)
    \/ RecordStop(t)
    \/ CaptureError(t)
    \/ WakeLoopHead(t)
    \/ WakeLoopTry(t)
    \/ WakeLoopAudio(t)
    \/ WakeLoopTranscribe(t)
    \/ WakeLoopSleep(t)
    \/ WakeLoopExcept(t)
    \/ WakeLoopBackoff(t)
    \/ Unwind(t)
    \/ WakeSet(t)
    \/ WakeTone(t)
    \/ WakePrompt(t)
    \/ WakeCallback(t)
    \/ ConversationStart(t)
    \/ ConversationAudio(t)
    \/ ConversationTranscribe(t)
    \/ ConversationExcept(t)
    \/ ConversationExceptCallback(t)
    \/ ConversationFinally(t)
    \/ ContinuousHead(t)
    \/ ContinuousTry(t)
    \/ ContinuousAudio(t)
    \/ ContinuousTranscribe(t)
    \/ ContinuousSleep(t)
    \/ ContinuousExcept(t)
    \/ ContinuousBackoff(t)
    \/ ProcessSpeechCallback(t)
    \/ ProcessCommand(t)
    \/ ProcessExitSpeak(t)
    \/ ProcessExitStop(t)
    \/ RespondAddUser(t)
    \/ RespondBackend(t)
    \/ ProcessResponseCallback(t)
    \/ ProcessSpeak(t)

Environment ==
    \/ Stop
    \/ \E energy \in {"loud", "quiet"} : AudioCallback(energy)

Init ==
    /\ MemoryInit(MaxMessages)
    /\ \E cbs \in {{}, CallbackNames} : AssistantInit(cbs)

Next == ThreadStep("t1") \/ Environment

Spec == Init /\ [][Next]_vars

\* The thread that runs the loop is scheduled again and again; nothing obliges
\* anyone to call stop() or the microphone to deliver a chunk.
FairSpec == Spec /\ WF_vars(ThreadStep("t1"))

\* Two threads call start(), as two clicks of the web interface's start button
\* do, and each runs the listening part of its loop: start(), the loop heads, the
\* recording, the transcription and the sleep. A thread that hears the wake
\* phrase or a request is followed no further, so every behaviour here is the
\* beginning of a behaviour of the program.
ListenStep(t) ==
    \/ \E mode \in BOOLEAN : StartCall(t, mode)
    \/ StartCheck(t)
    \/ StartSet(t)
    \/ RecordPoll(t)
    \/ RecordStop(t)
    \/ WakeLoopHead(t)
    \/ WakeLoopTry(t)
    \/ WakeLoopAudio(t)
    \/ WakeLoopTranscribe(t)
    \/ WakeLoopSleep(t)
    \/ ContinuousHead(t)
    \/ ContinuousTry(t)
    \/ ContinuousAudio(t)
    \/ ContinuousTranscribe(t)
    \/ ContinuousSleep(t)

InitRace == MemoryInit(MaxMessages) /\ AssistantInit({})

NextRace == (\E t \in {"t1", "t2"} : ListenStep(t)) \/ Environment

SpecRace == InitRace /\ [][NextRace]_vars

(***************************************************************************)
(* stop() from several threads: t1 runs start() and a listening loop, t2   *)
(* and t3 call stop() again and again, statement by statement. No start()  *)
(* is between its test and its assignment while a stop() runs.             *)
(***************************************************************************)
Stoppers == {"t2", "t3"}

StopLabels == {"stop_active", "stop_listening", "stop_stt", "stop_player"}

NextStop ==
    \/ /\ pc["t1"] = "idle" => \A u \in Stoppers : pc[u] = "idle"
       /\ ListenStep("t1")
    \/ \E u \in Stoppers :
          /\ pc[u] = "idle" => pc["t1"] \notin {"start", "start_set"}
          /\ StopStep(u)
    \/ \E energy \in {"loud", "quiet"} : AudioCallback(energy)

SpecStop == InitRace /\ [][NextStop]_vars

(***************************************************************************)
(* Claims.                                                                 *)
(***************************************************************************)
\* C1: after every add_message, len(messages) <= 2 * max_messages, and messages
\* is exactly the last min(k, 2 * max_messages) messages appended so far (k the
\* number of appends), in the order they were appended.
C1_RetainedTail ==
    /\ Len(messages) <= 2 * max_messages
    /\ messages = LastN(appended, Min(Len(appended), 2 * max_messages))

\* C1 witness: more messages were appended than the capacity holds, so the trim
\* has dropped some.
C1_Witness ==
    /\ max_messages >= 1
    /\ Len(appended) > 2 * max_messages
    /\ Len(messages) = 2 * max_messages

\* whether the log of thread t holds an event of the kind ev
HasEvent(t, ev) == \E i \in 1..Len(log[t]) : log[t][i].ev = ev

\* whether thread t has spoken the text since the top of its loop
HasSpoken(t, text) == \E i \in 1..Len(log[t]) : log[t][i] = Event("speak", text)

\* where a thread is while it is inside one of the two loops
LoopLabels ==
    {"wl_head", "wl_try", "wl_audio", "wl_stt", "wl_sleep", "wl_except", "wl_backoff",
     "hw_set", "hw_tone", "hw_prompt", "hw_cb",
     "sc_start", "sc_audio", "sc_stt", "sc_except", "sc_except_cb", "sc_finally",
     "sc_finally_raise",
     "cl_head", "cl_try", "cl_audio", "cl_stt", "cl_sleep", "cl_except", "cl_backoff",
     "rec", "rec_stop",
     "pi_cb", "pi_cmd", "pi_exit_speak", "pi_exit_stop", "pi_respond", "pi_backend",
     "pi_response_cb", "pi_speak"}

\* C2: in every reachable state of the orchestrator, conversation_active = true
\* implies is_active = true.
C2_ConversationOnlyWhileActive == conversation_active => is_active

\* C3: stop() called while conversation_active = true leaves conversation_active
\* = false and is_active = false when it returns.
C3_StopEndsConversation ==
    [][(conversation_active /\ Stop) => (~conversation_active' /\ ~is_active')]_vars

\* C4: after stop() is called while a record_with_vad call is in progress, that
\* call returns within one poll: a turn of its loop that begins after the stop
\* leaves the loop.
C4_StopUnblocksRecording ==
    [][\A t \in Threads :
         (HasEvent(t, "stop_called") /\ ~is_active /\ RecordPoll(t))
         => pc'[t] = "rec_stop"]_vars

\* C5: two listening or conversation loops of the same assistant never run at
\* the same time, whatever the interleaving of start() and stop() calls.
C5_OneLoopAtATime == Cardinality({t \in Threads : pc[t] \in LoopLabels}) <= 1

\* C6: whenever conversation_active becomes true it eventually becomes false
\* again, on every path; the loop is never left with conversation_active = true
\* forever.
C6_ConversationEnds == conversation_active ~> ~conversation_active

\* C7: when the transcription of a conversation turn contains an exit phrase,
\* the response spoken is the canned farewell, stop() is called after it, and
\* is_active is false afterwards.
C7_ExitSpeaksFarewellAndStops ==
    \A t \in Threads :
        loc[t].mode =>
        /\ pc[t] = "pi_exit_stop" => log[t][Len(log[t])] = Event("speak", FAREWELL)
        /\ (pc[t] \in {"pi_response_cb", "pi_speak", "pi_respond", "pi_backend"}
              => ~ContainsAny(EXIT_PHRASES, Lower(loc[t].text)))
        /\ (HasEvent(t, "stop") /\ pc[t] \in LoopLabels) => ~is_active

\* C8: in the wake word loop every capture or transcription failure is reported
\* through on_error and followed by the 1-second backoff before the next attempt.
C8_WakeLoopFailuresReported ==
    \A t \in Threads :
        (/\ pc[t] = "wl_head"
         /\ ~HasEvent(t, "tone")
         /\ HasEvent(t, "capture_error") \/ HasEvent(t, "transcribe_error"))
        => /\ "on_error" \in callbacks => HasEvent(t, "on_error")
           /\ HasEvent(t, "sleep_1")

\* a step of the turn raised in this iteration: one exception, and not one
\* raised by on_wake_word_detected before the turn or by on_error in a handler
TurnRaised(t) ==
    /\ Cardinality({i \in 1..Len(log[t]) : log[t][i].ev = "raise"}) = 1
    /\ \A i \in 2..Len(log[t]) :
          log[t][i].ev = "raise"
          => log[t][i - 1].ev \notin {"on_wake_word_detected", "on_error"}

\* C9: if a step of a conversation turn raises, the error apology is spoken,
\* on_error is invoked, conversation_active is false when the turn has returned,
\* and the exception does not leave the loop.
C9_TurnExceptionHandled ==
    \A t \in Threads :
        (pc[t] \in {"wl_head", "cl_head", "crashed"} /\ TurnRaised(t))
        => /\ HasSpoken(t, ERROR_APOLOGY)
           /\ "on_error" \in callbacks => HasEvent(t, "on_error")
           /\ ~conversation_active
           /\ pc[t] # "crashed"

APOLOGIES ==
    {RATE_LIMIT_APOLOGY, TIMEOUT_APOLOGY, API_ERROR_APOLOGY, GENERIC_APOLOGY}

\* C10: when the backend call fails, get_response returns one of the fixed
\* apologies instead of raising; memory ends with the user's message of that
\* request and no assistant message after it; and unless a callback raises, the
\* apology is what is spoken and the turn returns to its loop.
C10_BackendFailureDegrades ==
    \A t \in Threads :
        (HasEvent(t, "respond_error") /\ pc[t] \in LoopLabels)
        => /\ pc[t] \in {"pi_response_cb", "pi_speak", "sc_finally", "cl_sleep"}
                => /\ loc[t].response \in APOLOGIES
                   /\ messages # <<>>
                   /\ messages[Len(messages)]
                        = Message("user", loc[t].text, clock)
           /\ ~HasEvent(t, "raise")
                => /\ pc[t] \in {"pi_response_cb", "pi_speak", "sc_finally",
                                 "cl_sleep", "wl_sleep", "wl_head", "cl_head"}
                   /\ pc[t] \in {"sc_finally", "cl_sleep"}
                        => log[t][Len(log[t])] = Event("speak", loc[t].response)

\* C10 witness: a turn whose backend call failed has spoken the apology and is
\* back at the end of the turn, the user's message last in memory.
C10_Witness ==
    \E t \in Threads :
        /\ pc[t] = "sc_finally"
        /\ HasEvent(t, "respond_error")
        /\ HasSpoken(t, TIMEOUT_APOLOGY)
        /\ Len(messages) = 2 * max_messages
        /\ messages[Len(messages)].role = "user"

\* the parts of the memory a caller can read back
MemoryContents == <<messages, context_data, start_time>>

\* C11: start(wake_word_mode=True) on a stopped assistant leaves it in wake
\* listening (is_active, wake_word_mode, conversation_active = false), and
\* neither stop() nor that start() changes the memory's messages, context or
\* start time.
C11_RestartBeginsFresh ==
    [][/\ Stop => UNCHANGED MemoryContents
       /\ \A t \in Threads :
            (StartSet(t) /\ loc[t].mode)
            => /\ is_active' /\ wake_word_mode' /\ ~conversation_active'
               /\ pc'[t] = "wl_head"
               /\ UNCHANGED MemoryContents]_vars

\* the turn of thread t got an empty transcription and spoke the prompt for it
EmptyTurn(t) ==
    /\ loc[t].text = <<>>
    /\ log[t] # <<>>
    /\ log[t][Len(log[t])] = Event("speak", NO_CATCH_PROMPT)

\* C12: in a conversation turn whose transcription is empty the "didn't catch
\* that" prompt is spoken, neither command handling nor the backend is called,
\* the memory is unchanged, and the turn returns with conversation_active false.
C12_EmptyTranscriptionTurn ==
    [][\A t \in Threads :
         /\ (pc[t] = "sc_stt" /\ pc'[t] # "sc_stt" /\ loc'[t].text = <<>>)
            => /\ pc'[t] = "sc_finally"
               /\ log'[t][Len(log'[t])] = Event("speak", NO_CATCH_PROMPT)
               /\ \A i \in 1..Len(log'[t]) :
                     log'[t][i].ev \notin {"command", "responded", "respond_error"}
               /\ UNCHANGED MemoryContents
         /\ (pc[t] = "sc_finally" /\ EmptyTurn(t) /\ pc'[t] # "sc_finally")
            => /\ ~conversation_active'
               /\ pc'[t] = "wl_sleep"
               /\ UNCHANGED MemoryContents]_vars

\* C12 witness: such a turn has returned to the wake loop
C12_Witness ==
    \E t \in Threads :
        /\ pc[t] = "wl_sleep"
        /\ EmptyTurn(t)
        /\ HasEvent(t, "tone")
        /\ ~conversation_active

\* the events that record a reply: a command's response or the backend's
ReplyEvents == {"command", "responded", "respond_error"}

\* C13: in every turn with a non-empty transcription, command (exit phrases
\* included) or not, on_speech_recognized(text) is called before dispatch, and
\* on_response_generated(response) and the speaker are both called after the
\* reply is produced.
C13_CallbacksAroundDispatch ==
    \A t \in Threads :
        (/\ pc[t] \in {"sc_finally", "cl_sleep"}
         /\ \E j \in 1..Len(log[t]) : log[t][j].ev \in ReplyEvents
         /\ ~HasEvent(t, "raise"))
        => \E j \in 1..Len(log[t]) :
              /\ log[t][j].ev \in ReplyEvents
              /\ "on_speech_recognized" \in callbacks
                   => \E i \in 1..(j - 1) :
                         log[t][i] = Event("on_speech_recognized", loc[t].text)
              /\ "on_response_generated" \in callbacks
                   => \E k \in (j + 1)..Len(log[t]) :
                         log[t][k] = Event("on_response_generated", loc[t].response)
              /\ \E k \in (j + 1)..Len(log[t]) :
                    log[t][k] = Event("speak", loc[t].response)

\* C14: start() called while is_active is true, in either mode, changes no
\* state of the assistant, the recorder or the memory and enters no loop.
C14_StartIdempotentWhileActive ==
    [][\A t \in Threads :
         (pc[t] = "start" /\ is_active /\ pc'[t] # "start")
         => /\ pc'[t] = "idle"
            /\ UNCHANGED <<memVars, flagVars, recVars>>]_vars

\* C14 witness: while one thread records in its loop, start() on another found
\* the assistant active and returned
C14_Witness ==
    \E t, u \in Threads :
        /\ pc[t] = "idle"
        /\ HasEvent(t, "already_running")
        /\ pc[u] = "rec"
        /\ is_active
        /\ wake_word_mode

\* C15: stop() called on a stopped assistant, twice in a row, or by several
\* threads at once always runs to its end (each of its statements can be taken),
\* returns normally, and returns with is_active and is_listening false.
C15_StopIdempotentConcurrent ==
    /\ [](\A t \in Threads : pc[t] \in StopLabels => ENABLED StopStep(t))
    /\ [][\A t \in Threads :
            (pc[t] = "stop_player" /\ pc'[t] # "stop_player")
            => /\ pc'[t] = "idle"
               /\ ~is_active'
               /\ ~is_listening']_vars

\* C15 witness: one caller's stop() has returned while another's is still
\* running and the loop it stopped is still inside a recording
C15_Witness ==
    \E t, u \in Stoppers :
        /\ pc[t] = "idle" /\ HasEvent(t, "stopped")
        /\ pc[u] \in StopLabels
        /\ pc["t1"] = "rec"
        /\ ~is_active /\ ~is_listening

\* C16: is_active and conversation_active are written only by the thread that
\* runs start() and its loop; a caller of stop() on another thread never
\* writes them.
C16_SingleWriter ==
    [][(is_active' # is_active \/ conversation_active' # conversation_active)
       => \E t \in Threads :
             /\ pc'[t] # pc[t]
             /\ pc[t] \in LoopLabels \cup {"start_set"}]_vars

\* the transcription of this iteration of thread t came out empty
TranscribedEmpty(t) ==
    \E i \in 1..Len(log[t]) :
        /\ log[t][i].ev \in {"transcribed", "transcribe_error"}
        /\ log[t][i].arg = <<>>

\* C17: in continuous mode a turn follows the logic of a conversation turn (an
\* empty transcription is answered with the "didn't catch that" prompt, an
\* exception with the spoken apology and on_error) while the tone, the wake
\* prompt and on_wake_word_detected never occur.
C17_ContinuousTurnLikeConversation ==
    \A t \in Threads :
        (~loc[t].mode /\ pc[t] \in {"cl_sleep", "cl_backoff", "cl_head"})
        => /\ ~HasEvent(t, "tone")
           /\ ~HasSpoken(t, WAKE_PROMPT)
           /\ ~HasEvent(t, "on_wake_word_detected")
           /\ TranscribedEmpty(t) => HasSpoken(t, NO_CATCH_PROMPT)
           /\ (TurnRaised(t) /\ pc[t] # "cl_sleep")
                => /\ HasSpoken(t, ERROR_APOLOGY)
                   /\ "on_error" \in callbacks => HasEvent(t, "on_error")

\* thread t heard, in this iteration of the wake loop, text without the wake word
HeardOtherText(t) ==
    /\ loc[t].text # <<>>
    /\ ~detect_wake_word(loc[t].text)
    /\ ~HasEvent(t, "tone")

\* C18: in the wake loop, text that does not contain the wake word is ignored:
\* no command handling, no backend call, nothing spoken, no tone, the memory
\* unchanged, conversation_active still false, and the loop goes on to its
\* next iteration.
C18_NonWakeTextIgnored ==
    [][\A t \in Threads :
         /\ (pc[t] = "wl_stt" /\ pc'[t] # "wl_stt"
               /\ loc'[t].text # <<>> /\ ~detect_wake_word(loc'[t].text))
            => /\ pc'[t] = "wl_sleep"
               /\ \A i \in 1..Len(log'[t]) :
                     log'[t][i].ev \notin
                        ReplyEvents \cup {"speak", "tone", "on_wake_word_detected"}
               /\ ~conversation_active /\ ~conversation_active'
               /\ UNCHANGED MemoryContents
         /\ (pc[t] = "wl_sleep" /\ HeardOtherText(t) /\ pc'[t] # "wl_sleep")
            => /\ pc'[t] = "wl_head"
               /\ ~conversation_active'
               /\ UNCHANGED MemoryContents]_vars

\* C18 witness: the wake loop heard "Goodbye", a command elsewhere, and is at the
\* end of its iteration with nothing done
C18_Witness ==
    \E t \in Threads :
        /\ pc[t] = "wl_sleep"
        /\ loc[t].text = T_bye
        /\ HeardOtherText(t)
        /\ is_active

\* where thread t is between the assignment of conversation_active in
\* _handle_wake_word_detected and the finally clause of _start_conversation
InTurn(t) ==
    \/ pc[t] \in {"hw_tone", "hw_prompt", "hw_cb", "sc_start", "sc_audio", "sc_stt",
                  "sc_except", "sc_except_cb", "sc_finally", "sc_finally_raise"}
    \/ pc[t] \in {"rec", "rec_stop"} /\ loc[t].ret = "sc_audio"
    \/ /\ loc[t].mode
       /\ pc[t] \in {"pi_cb", "pi_cmd", "pi_exit_speak", "pi_exit_stop", "pi_respond",
                     "pi_backend", "pi_response_cb", "pi_speak"}

\* the positions in the log of thread t of the events named ev
Positions(t, ev) == {i \in 1..Len(log[t]) : log[t][i].ev = ev}

\* C19: on a wake word match conversation_active is set, then the tone is
\* played, then the prompt is spoken, then on_wake_word_detected is called, and
\* only then is a conversation turn recorded: exactly one turn before the loop
\* is back in wake listening.
C19_WakeSequence ==
    \A t \in Threads :
        /\ InTurn(t) => conversation_active
        /\ \A i \in Positions(t, "tone") :
              \E h \in 1..(i - 1) :
                 log[t][h].ev = "transcribed" /\ detect_wake_word(log[t][h].arg)
        /\ \A i \in 1..Len(log[t]) :
              log[t][i] = Event("speak", WAKE_PROMPT)
              => \E h \in 1..(i - 1) : log[t][h].ev = "tone"
        /\ \A i \in Positions(t, "on_wake_word_detected") :
              \E h \in 1..(i - 1) : log[t][h] = Event("speak", WAKE_PROMPT)
        /\ \A i \in Positions(t, "record_turn") :
              /\ \E h \in 1..(i - 1) : log[t][h] = Event("speak", WAKE_PROMPT)
              /\ "on_wake_word_detected" \in callbacks
                   => \E h \in 1..(i - 1) :
                         /\ log[t][h].ev = "on_wake_word_detected"
                         /\ log[t][h + 1].ev # "raise"
        /\ Cardinality(Positions(t, "record_turn")) <= 1
        /\ (pc[t] \in {"wl_sleep", "wl_backoff", "wl_head"} /\ HasEvent(t, "tone"))
           => /\ Cardinality(Positions(t, "record_turn")) = 1
              /\ ~conversation_active

\* thread t, inside record_with_vad, takes a chunk of the given energy class
\* from the queue in this step
Consumes(t, energy) ==
    /\ pc[t] = "rec"
    /\ audio_queue # <<>>
    /\ Head(audio_queue) = energy
    /\ audio_queue' = Tail(audio_queue)

\* C20: in a record_with_vad call whose consumed chunks all have energy at or
\* below the threshold, speech onset is never signalled, the silence end is
\* never taken, and the call leaves its loop only when the elapsed time has
\* reached max_duration.
C20_SilenceOnlyRunsToTimeout ==
    [][\A t \in Threads :
         /\ Consumes(t, "quiet")
            => /\ loc'[t].speech_detected = loc[t].speech_detected
               /\ pc'[t] = "rec_stop" => loc[t].speech_detected
         /\ (pc[t] = "rec" /\ pc'[t] = "rec_stop" /\ ~loc[t].speech_detected)
            => loc[t].elapsed >= loc[t].max_duration]_vars

(***************************************************************************)
(* The memory and its queries.  A query is called by thread "t1"; what it  *)
(* returned last is the one entry of that thread's log.                    *)
(***************************************************************************)
Returned(name, args, ret) ==
    log' = [log EXCEPT !["t1"] = <<Event(name, [args |-> args, ret |-> ret])>>]

\* the Python slice s[start:]
SliceFrom(s, start) ==
    LET n == Len(s)
        from == IF start < 0
                THEN (IF start + n < 0 THEN 0 ELSE start + n)
                ELSE Min(start, n)
    IN  SubSeq(s, from + 1, n)

\* get_recent_messages(count), count not None
get_recent_messages(msgs, count) ==
    LET recent_messages == IF count < Len(msgs) THEN SliceFrom(msgs, -count) ELSE msgs
    IN  [i \in 1..Len(recent_messages) |->
            [role |-> recent_messages[i].role, content |-> recent_messages[i].content]]

MemGetRecent(count) ==
    /\ Returned("get_recent_messages", count, get_recent_messages(messages, count))
    /\ UNCHANGED <<memVars, flagVars, recVars, pc, loc>>

\* search_messages that forgets the role filter
search_messages_any_role(msgs, query, role) ==
    LET query_lower == Lower(query)
        Matches(msg) == Contains(query_lower, Lower(msg.content))
    IN  SelectSeq(msgs, Matches)

\* search_messages(query, role); role None is the empty string here
search_messages(msgs, query, role) ==
    LET query_lower == Lower(query)
        Matches(msg) == /\ ~(role # "" /\ msg.role # role)
                        /\ Contains(query_lower, Lower(msg.content))
    IN  SelectSeq(msgs, Matches)

MemSearch(query, role) ==
    /\ Returned("search_messages", <<query, role>>, search_messages(messages, query, role))
    /\ UNCHANGED <<memVars, flagVars, recVars, pc, loc>>

\* queries: "", "o", "GOOD"
Queries == {T_empty, <<"o">>, <<"G", "O", "O", "D">>}

NextQuery ==
    \/ MemAddMessage("assistant", REPLY)
    \/ MemAddMessage("user", T_bye)
    \/ MemClear
    \/ \E count \in 0..MaxCount : MemGetRecent(count)
    \/ \E query \in Queries, role \in {""} \cup Roles : MemSearch(query, role)

SpecQuery == InitMem /\ [][NextQuery]_vars

(***************************************************************************)
(* The text functions applied to texts of every shape: an input text is    *)
(* put together from up to MaxPieces pieces with a blank between them, and *)
(* thread "t1" passes it to the function.                                  *)
(***************************************************************************)
Pieces == {T_wake, W_hey, W_assistant, W_asistant, T_chat, T_bye, P_start_over,
           P_how_are_you, T_help}

RECURSIVE Joined(_)
Joined(ps) ==
    IF ps = <<>> THEN <<>>
    ELSE IF Len(ps) = 1 THEN ps[1]
    ELSE ps[1] \o <<" ">> \o Joined(Tail(ps))

Texts == {Joined(ps) : ps \in UNION {[1..n -> Pieces] : n \in 0..MaxPieces}}

\* the text the calls are made with
TextInput(text) ==
    /\ loc["t1"].text = <<>>
    /\ text # <<>>
    /\ loc' = [loc EXCEPT !["t1"].text = text]
    /\ log' = [log EXCEPT !["t1"] = <<>>]
    /\ UNCHANGED <<memVars, flagVars, recVars, pc>>

\* stt.detect_wake_word(text)
DetectWakeWord ==
    /\ Returned("detect_wake_word", loc["t1"].text, detect_wake_word(loc["t1"].text))
    /\ UNCHANGED <<memVars, flagVars, recVars, pc, loc>>

\* chat.handle_command(text), with the self.memory.clear() of its first branch
HandleCommand ==
    /\ LET cmd == handle_command(loc["t1"].text) IN
       /\ Returned("handle_command", loc["t1"].text, <<cmd.response, cmd.is_command>>)
       /\ IF cmd.clears
          THEN /\ messages' = <<>>
               /\ start_time' = clock
               /\ context_data' = {}
               /\ appended' = <<>>
          ELSE UNCHANGED <<messages, start_time, context_data, appended>>
    /\ UNCHANGED <<max_messages, clock, file, flagVars, recVars, pc, loc>>

\* process_text_input that speaks its response as _process_user_input does
ProcessTextInputSpeaks(outcome) ==
    /\ Len(appended) < MaxAppends
    /\ LET text == loc["t1"].text
           cmd == handle_command(text)
           user == Message("user", text, clock)
           reply == Message("assistant", Strip(REPLY), clock)
       IN  IF cmd.is_command
           THEN /\ log' = [log EXCEPT !["t1"] =
                            <<Event("process_text_input",
                                    [args |-> text, ret |-> cmd.response]),
                              Event("speak", cmd.response)>>]
                /\ IF cmd.clears
                   THEN /\ messages' = <<>>
                        /\ start_time' = clock
                        /\ context_data' = {}
                        /\ appended' = <<>>
                   ELSE UNCHANGED <<messages, start_time, context_data, appended>>
           ELSE /\ log' = [log EXCEPT !["t1"] =
                            <<Event("process_text_input",
                                    [args |-> text, ret |-> get_response_result(outcome)]),
                              Event("speak", get_response_result(outcome))>>]
                /\ IF outcome = "ok"
                   THEN /\ messages' = AddMessage(AddMessage(messages, max_messages, "user",
                                                             text, clock),
                                                  max_messages, "assistant", Strip(REPLY), clock)
                        /\ appended' = appended \o <<user, reply>>
                   ELSE /\ messages' = AddMessage(messages, max_messages, "user", text, clock)
                        /\ appended' = Append(appended, user)
                /\ UNCHANGED <<start_time, context_data>>
    /\ UNCHANGED <<max_messages, clock, file, flagVars, recVars, pc, loc>>

\* process_text_input(text): the command's response, or get_response(text,
\* context) with its two add_message calls, the backend ending in outcome
ProcessTextInput(outcome) ==
    /\ Len(appended) < MaxAppends
    /\ LET text == loc["t1"].text
           cmd == handle_command(text)
           user == Message("user", text, clock)
           reply == Message("assistant", Strip(REPLY), clock)
       IN  IF cmd.is_command
           THEN /\ Returned("process_text_input", text, cmd.response)
                /\ IF cmd.clears
                   THEN /\ messages' = <<>>
                        /\ start_time' = clock
                        /\ context_data' = {}
                        /\ appended' = <<>>
                   ELSE UNCHANGED <<messages, start_time, context_data, appended>>
           ELSE /\ Returned("process_text_input", text, get_response_result(outcome))
                /\ IF outcome = "ok"
                   THEN /\ messages' = AddMessage(AddMessage(messages, max_messages, "user",
                                                             text, clock),
                                                  max_messages, "assistant", Strip(REPLY), clock)
                        /\ appended' = appended \o <<user, reply>>
                   ELSE /\ messages' = AddMessage(messages, max_messages, "user", text, clock)
                        /\ appended' = Append(appended, user)
                /\ UNCHANGED <<start_time, context_data>>
    /\ UNCHANGED <<max_messages, clock, file, flagVars, recVars, pc, loc>>

NextText ==
    \/ \E text \in Texts : TextInput(text)
    \/ MemAddMessage("user", T_chat)
    \/ DetectWakeWord
    \/ HandleCommand

SpecText == InitMem /\ [][NextText]_vars

\* process_text_input on the texts the loops hear
NextInput ==
    \/ \E text \in Transcripts \cup {T_chat} : TextInput(text)
    \/ \E outcome \in BackendOutcomes : ProcessTextInput(outcome)

SpecInput == InitMem /\ [][NextInput]_vars

(***************************************************************************)
(* ChatHandler.export_conversation and import_conversation, on a memory    *)
(* that is filled, cleared and read while the clock advances.  The list    *)
(* export_conversation returned is the one entry of the log of "t1".       *)
(***************************************************************************)
\* memory.get_all_messages(): self.messages.copy(), a list of its own
get_all_messages(msgs) == msgs

\* import_conversation that puts each message in front of the ones before it
RECURSIVE import_conversation_reversed(_, _, _)
import_conversation_reversed(exported, maxm, now) ==
    IF exported = <<>> THEN <<>>
    ELSE LET msg == exported[Len(exported)] IN
         Trim(<<Message(msg.role, msg.content, now)>>
                 \o import_conversation_reversed(SubSeq(exported, 1, Len(exported) - 1),
                                                 maxm, now),
              maxm)

\* the loop of import_conversation over the messages, after memory.clear():
\* add_message(msg["role"], msg["content"]) for each, stamped now
RECURSIVE import_conversation(_, _, _)
import_conversation(exported, maxm, now) ==
    IF exported = <<>> THEN <<>>
    ELSE LET msg == exported[Len(exported)] IN
         AddMessage(import_conversation(SubSeq(exported, 1, Len(exported) - 1), maxm, now),
                    maxm, msg.role, msg.content, now)

\* exported = chat.export_conversation()
ExportConversation ==
    /\ Returned("export_conversation", <<>>, get_all_messages(messages))
    /\ UNCHANGED <<memVars, flagVars, recVars, pc, loc>>

\* the list the caller holds
Exported == log["t1"][1].arg.ret

\* chat.import_conversation(exported)
ImportConversation ==
    /\ log["t1"] # <<>>
    /\ messages' = import_conversation(Exported, max_messages, clock)
    /\ start_time' = clock
    /\ context_data' = {}
    /\ appended' = [i \in 1..Len(Exported) |->
                       Message(Exported[i].role, Exported[i].content, clock)]
    /\ UNCHANGED <<max_messages, clock, file, orchVars>>

NextConv ==
    \/ MemAddMessage("assistant", REPLY)
    \/ MemAddMessage("user", T_bye)
    \/ MemClear
    \/ ClockTick
    \/ ExportConversation
    \/ ImportConversation

SpecConv == InitMem /\ [][NextConv]_vars

(***************************************************************************)
(* The memory and files of any origin: the file import_from_file opens may *)
(* be missing, may have been written by export_to_file of this memory or   *)
(* of a memory with another max_messages, may hold a start_time that is no *)
(* date, or may hold no JSON at all.                                       *)
(***************************************************************************)
MaxFileMessages == 3

\* a file whose text json.load rejects
NotJson == [text |-> "{"]

\* a start_time string datetime.fromisoformat rejects
NotADate == 0 - 1

\* whether json.load(f) returns
IsJson(f) == "text" \notin DOMAIN f

\* whether datetime.fromisoformat(s) returns
IsIsoFormat(s) == s >= 0

\* the messages of a memory that was given n messages, user and assistant in
\* turn, at its construction time
ForeignMessages(n) ==
    [i \in 1..n |-> Message(IF i % 2 = 1 THEN "user" ELSE "assistant", T_chat, 0)]

\* what export_to_file of such a memory wrote
ForeignExport(n) == export_data(ForeignMessages(n), {}, 0, 0)

ForeignFiles ==
    {NotJson}
      \cup {ForeignExport(n) : n \in 1..MaxFileMessages}
      \cup {[ForeignExport(n) EXCEPT !.start_time = NotADate] : n \in 1..MaxFileMessages}

\* the file is put there by someone else
ForeignWrite(f) ==
    /\ file' = <<f>>
    /\ UNCHANGED <<messages, max_messages, start_time, context_data, clock, appended,
                   orchVars>>

\* whether import_from_file would end in its except clause
ImportFails ==
    \/ file = <<>>
    \/ ~IsJson(file[1])
    \/ ~IsIsoFormat(file[1].start_time)

\* import_from_file(filename): open and json.load raise before anything is
\* changed; then clear(), the messages and the context of the file are taken
\* over as they are, and fromisoformat may raise after that.  The except
\* clause prints in every case.
ImportFromFile ==
    /\ IF file = <<>> \/ ~IsJson(file[1])
       THEN UNCHANGED <<messages, context_data, start_time, appended>>
       ELSE LET data == file[1] IN
            /\ messages' = data.messages
            /\ context_data' = data.context
            /\ start_time' = IF IsIsoFormat(data.start_time)
                             THEN fromisoformat(data.start_time)
                             ELSE clock
            /\ appended' = <<>>
    /\ UNCHANGED <<max_messages, clock, file, orchVars>>

NextImport ==
    \/ MemAddMessage("user", T_chat)
    \/ \E key \in ContextKeys, value \in ContextValues : MemAddContext(key, value)
    \/ MemClear
    \/ ClockTick
    \/ MemExport
    \/ \E f \in ForeignFiles : ForeignWrite(f)
    \/ ImportFromFile
    \/ ExportConversation
    \/ ImportConversation

SpecImport == InitMem /\ [][NextImport]_vars

(***************************************************************************)
(* The recorder on its own: thread "t1" calls record_with_vad again and    *)
(* again, with on_speech_detected and on_silence_detected set.             *)
(***************************************************************************)
\* recorder.record_with_vad(max_duration), called directly
VadCall(t, max_duration) ==
    /\ pc[t] = "idle"
    /\ RecordBegin(t, max_duration, "idle")
    /\ log' = [log EXCEPT ![t] = <<>>]
    /\ UNCHANGED <<memVars, flagVars>>

InitVad ==
    /\ MemoryInit(MaxMessages)
    /\ AssistantInit({"on_speech_detected", "on_silence_detected"})

NextVad ==
    \/ \E max_duration \in {WakeMaxPolls, ConvMaxPolls} : VadCall("t1", max_duration)
    \/ RecordPoll("t1")
    \/ RecordStop("t1")
    \/ CaptureError("t1")
    \/ \E energy \in {"loud", "quiet"} : AudioCallback(energy)

SpecVad == InitVad /\ [][NextVad]_vars

(***************************************************************************)
(* The recorder and its capture workers: thread "t1" calls start_recording,*)
(* stop_recording and record_with_vad, and "t2" and "t3" are the threads   *)
(* start_recording creates, at "capture" while they run _recording_loop.   *)
(***************************************************************************)
\* start_recording(), called directly or at the top of record_with_vad (vad):
\* refused while is_recording, else the flag is set, the buffer emptied and a
\* new thread started on _recording_loop
StartRecording(t, vad) ==
    /\ pc[t] = "idle"
    /\ IF is_recording
       THEN /\ Goto(t, IF vad THEN "rec" ELSE "idle")
            /\ UNCHANGED <<is_recording, audio_data>>
       ELSE /\ is_recording' = TRUE
            /\ audio_data' = 0
            /\ \E w \in Threads \ {t} :
                 /\ pc[w] = "idle"
                 /\ pc' = [pc EXCEPT ![w] = "capture",
                                     ![t] = IF vad THEN "rec" ELSE "idle"]
    /\ loc' = IF vad
              THEN [loc EXCEPT ![t].max_duration = ConvMaxPolls, ![t].ret = "idle",
                               ![t].elapsed = 0, ![t].last_speech_time = 0,
                               ![t].speech_detected = FALSE]
              ELSE loc
    /\ UNCHANGED <<memVars, flagVars, audio_queue, log>>

\* stop_recording() up to the join, called directly or at the end of
\* record_with_vad: self.is_recording = False
StopRecordingSet(t) ==
    /\ pc[t] \in {"idle", "rec_stop"}
    /\ is_recording' = FALSE
    /\ Goto(t, "sr_join")
    /\ UNCHANGED <<memVars, flagVars, audio_data, audio_queue, loc, log>>

\* recording_thread.join(timeout=1.0) returns, because the worker has ended or
\* because the second is over, and stop_recording returns the array
StopRecordingJoin(t) ==
    /\ pc[t] = "sr_join"
    /\ loc' = [loc EXCEPT ![t].audio = audio_data, ![t].max_duration = 0,
                          ![t].ret = "", ![t].elapsed = 0,
                          ![t].last_speech_time = 0, ![t].speech_detected = FALSE]
    /\ Goto(t, "idle")
    /\ UNCHANGED <<memVars, flagVars, recVars, log>>

\* _recording_loop: `while self.is_recording` is found false, the stream is
\* closed and the thread ends
RecordingLoopExit(w) ==
    /\ pc[w] = "capture"
    /\ ~is_recording
    /\ Goto(w, "idle")
    /\ UNCHANGED <<memVars, flagVars, recVars, loc, log>>

NextWorker ==
    \/ \E vad \in BOOLEAN : StartRecording("t1", vad)
    \/ RecordPoll("t1")
    \/ StopRecordingSet("t1")
    \/ StopRecordingJoin("t1")
    \/ \E w \in {"t2", "t3"} : RecordingLoopExit(w)
    \/ \E energy \in {"loud", "quiet"} : AudioCallback(energy)

SpecWorker == InitRace /\ [][NextWorker]_vars

(***************************************************************************)
(* VoiceAssistant.speak_text, called by a thread of the embedding program   *)
(* while the listening loop runs.                                          *)
(***************************************************************************)
\* speak_text(text): self.tts.speak(text), whatever the recorder is doing
SpeakText(t, text) ==
    /\ pc[t] = "idle"
    /\ Len(log[t]) < MaxSpoken
    /\ Logged(t, "speak", text)
    /\ UNCHANGED <<memVars, flagVars, recVars, pc, loc>>

NextSay == Next \/ SpeakText("t2", T_chat)

SpecSay == Init /\ [][NextSay]_vars

\* thread t has left the loop of record_with_vad through its silence branch
\* (speech seen, then silence for longer than silence_duration, past
\* min_recording_duration) and has not yet run stop_recording
SilenceEnded(t) ==
    /\ pc[t] = "rec_stop"
    /\ is_recording
    /\ loc[t].speech_detected
    /\ loc[t].elapsed < loc[t].max_duration
    /\ loc[t].elapsed - loc[t].last_speech_time > SilencePolls
    /\ loc[t].elapsed > MinRecordingPolls

\* C21: once record_with_vad has detected the silence-triggered end, no chunk
\* captured afterwards is stored into audio_data, the list whose concatenation
\* stop_recording returns as the utterance.
C21_UtteranceEndsAtDetection ==
    [][\A t \in Threads :
         SilenceEnded(t)
            => ~(\E energy \in {"loud", "quiet"} : AudioCallback(energy))]_vars

\* thread t plays in this step: the Speaker speaks or the notification tone
\* sounds, both of which return only when playback is over
Plays(t) ==
    /\ Len(log'[t]) > Len(log[t])
    /\ \E i \in (Len(log[t]) + 1)..Len(log'[t]) : log'[t][i].ev \in {"speak", "tone"}

\* C22: playback and capture are mutually exclusive: the recorder is never
\* capturing (is_recording true, the capture worker storing chunks) while the
\* Speaker or the notification tone is playing.
C22_PlaybackExcludesCapture ==
    [][\A t \in Threads : Plays(t) => ~is_recording]_vars

\* C23: export followed by import round-trips: importing the file that was
\* just exported from the present memory leaves the same ordered messages, the
\* same context and the same start time as at export.
C23_ExportImportRoundTrip ==
    [][(/\ file = <<export_data(messages, context_data, start_time, clock)>>
        /\ MemImport)
       => MemoryContents' = MemoryContents]_vars

\* the message reduced to role and content
Formatted(msg) == [role |-> msg.role, content |-> msg.content]

\* C24: get_recent_messages(n) returns exactly the last min(n, length)
\* messages in their order, each reduced to role and content, for every
\* n >= 0, and does not modify the memory.
C24_RecentMessages ==
    [][\A n \in 0..MaxCount :
         MemGetRecent(n)
            => LET last == LastN(messages, Min(n, Len(messages))) IN
               /\ log'["t1"][1].arg.ret = [i \in 1..Len(last) |-> Formatted(last[i])]
               /\ MemoryContents' = MemoryContents]_vars

\* the messages were passed to add_message as (user, assistant) pairs, the last
\* pair possibly still waiting for its assistant turn
Alternating(h) ==
    \A i \in 1..Len(h) : h[i].role = (IF i % 2 = 1 THEN "user" ELSE "assistant")

\* C25: when the turns are appended as alternating (user, assistant) pairs,
\* after every append the retained messages start with a user turn and every
\* retained assistant turn comes right after its user turn: the trim never
\* splits a pair.
C25_TrimKeepsPairs ==
    Alternating(appended)
       => /\ messages # <<>> => messages[1].role = "user"
          /\ \A i \in 1..Len(messages) :
                messages[i].role = "assistant"
                   => i > 1 /\ messages[i - 1] = appended[Len(appended) - Len(messages) + i - 1]
                            /\ messages[i - 1].role = "user"

\* C26: right after clear(), get_conversation_stats() reports no messages at
\* all (total, user and assistant counts 0), the messages and the context are
\* empty, and start_time is the time of the clear, so the duration starts
\* again from 0.
C26_ClearResetsEverything ==
    [][MemClear
       => LET stats == get_conversation_stats(messages', start_time', clock') IN
          /\ stats.total_messages = 0
          /\ stats.user_messages = 0
          /\ stats.assistant_messages = 0
          /\ stats.start_time = get_start_time(clock)
          /\ stats.duration_minutes = 0
          /\ messages' = <<>>
          /\ context_data' = {}
          /\ start_time' = clock]_vars

\* C26 witness: a memory that held messages and context, as the file exported
\* from it shows, has been cleared at a later time than its construction
C26_Witness ==
    /\ file # <<>>
    /\ file[1].messages # <<>>
    /\ file[1].context # {}
    /\ messages = <<>>
    /\ context_data = {}
    /\ start_time = clock
    /\ clock > 0

\* sub occurs in s from position k + 1 on, character by character
OccursAt(sub, s, k) ==
    /\ k + Len(sub) <= Len(s)
    /\ \A j \in 1..Len(sub) : s[k + j] = sub[j]

\* the text a detect_wake_word call returned for, and what it returned
Detected(e) == e.ev = "detect_wake_word"

\* C27: detect_wake_word(text) is true exactly when the lowercased wake phrase
\* occurs as a contiguous run of the lowercased text: the case of the text
\* does not matter, a text with the words in another order or with a near
\* miss of the phrase does not match, and the empty text never matches.
C27_WakeWordIsSubstringMatch ==
    \A i \in 1..Len(log["t1"]) :
       LET e == log["t1"][i] IN
       Detected(e)
          => /\ e.arg.ret <=> \E k \in 0..Len(e.arg.args) :
                                 OccursAt(Lower(WAKE_WORD), Lower(e.arg.args), k)
             /\ e.arg.args = <<>> => ~e.arg.ret
             /\ e.arg.args = W_assistant \o <<" ">> \o W_hey => ~e.arg.ret
             /\ e.arg.args = W_hey \o <<" ">> \o W_asistant => ~e.arg.ret

\* C27 witness: a text in capitals was found to hold the wake phrase after
\* other words
C27_Witness ==
    \E i \in 1..Len(log["t1"]) :
       /\ Detected(log["t1"][i])
       /\ log["t1"][i].arg.args = T_chat \o <<" ">> \o T_wake
       /\ log["t1"][i].arg.ret

\* one of the phrases occurs in the text
OccursAny(phrases, s) == \E p \in phrases : \E k \in 0..Len(s) : OccursAt(p, s, k)

\* C28: handle_command reports a command exactly when the lowercased input
\* contains one of the recognized phrases, the response chosen by the
\* precedence clear > exit > status > help, and returns ("", False) otherwise;
\* it clears the memory when a clear phrase matched and leaves the memory as
\* it was in every other case.
C28_CommandPrecedence ==
    [][HandleCommand
       => LET low == Lower(loc["t1"].text)
              ret == log'["t1"][1].arg.ret
              clear == OccursAny(CLEAR_PHRASES, low)
              exit == OccursAny(HANDLER_EXIT_PHRASES, low)
              status == OccursAny(STATUS_PHRASES, low)
              help == OccursAny({P_help, P_what_can_you_do}, low)
          IN  /\ ret[2] <=> (clear \/ exit \/ status \/ help)
              /\ clear => ret[1] = CLEAR_RESPONSE
              /\ (~clear /\ exit) => ret[1] = FAREWELL
              /\ (~clear /\ ~exit /\ status) => ret[1] = STATUS_RESPONSE
              /\ (~clear /\ ~exit /\ ~status /\ help) => ret[1] = HELP_TEXT
              /\ ~(clear \/ exit \/ status \/ help) => ret = <<<<>>, FALSE>>
              /\ clear => messages' = <<>> /\ context_data' = {}
              /\ ~clear => MemoryContents' = MemoryContents]_vars

\* C28 witness: a text holding a clear phrase and an exit phrase was answered
\* as the clear command and left the memory empty
C28_Witness ==
    /\ log["t1"] # <<>>
    /\ log["t1"][1].ev = "handle_command"
    /\ log["t1"][1].arg.args = P_start_over \o <<" ">> \o T_bye
    /\ log["t1"][1].arg.ret = <<CLEAR_RESPONSE, TRUE>>
    /\ messages = <<>>

\* C29: process_text_input(text) returns the command's response when
\* handle_command reports a command and the reply of get_response otherwise;
\* either way it leaves is_active, conversation_active and wake_word_mode as
\* they were, speaks nothing and calls no callback.
C29_TextInputFrame ==
    [][\A outcome \in BackendOutcomes :
         ProcessTextInput(outcome)
            => LET cmd == handle_command(loc["t1"].text) IN
               /\ log'["t1"][1].ev = "process_text_input"
               /\ log'["t1"][1].arg.ret = (IF cmd.is_command THEN cmd.response
                                           ELSE get_response_result(outcome))
               /\ <<is_active', conversation_active', wake_word_mode'>>
                     = <<is_active, conversation_active, wake_word_mode>>
               /\ \A i \in 1..Len(log'["t1"]) :
                     log'["t1"][i].ev \notin CallbackNames \cup {"speak", "tone"}]_vars

\* C29 witness: a text that is no command was answered with the reply of the
\* backend, which is now the last message of the memory
C29_Witness ==
    /\ log["t1"] # <<>>
    /\ log["t1"][1].ev = "process_text_input"
    /\ log["t1"][1].arg = [args |-> T_chat, ret |-> REPLY]
    /\ messages # <<>>
    /\ messages[Len(messages)].role = "assistant"

\* the message matches the search: the lowercased query occurs in its
\* lowercased content, and its role is the role asked for, if one is
Hit(msg, query, role) ==
    /\ \E k \in 0..Len(msg.content) : OccursAt(Lower(query), Lower(msg.content), k)
    /\ role \in Roles => msg.role = role

\* s is made of exactly the elements of msgs (by position) that satisfy the
\* search, in their order
RECURSIVE IsSelection(_, _, _, _)
IsSelection(s, msgs, query, role) ==
    IF msgs = <<>> THEN s = <<>>
    ELSE IF Hit(Head(msgs), query, role)
         THEN s # <<>> /\ Head(s) = Head(msgs)
              /\ IsSelection(Tail(s), Tail(msgs), query, role)
         ELSE IsSelection(s, Tail(msgs), query, role)

\* C30: search_messages(query, role) returns, in their stored order, exactly
\* the messages whose content contains the query whatever the case and, when
\* a role is given, whose role is that role; it does not modify the memory.
C30_SearchMessages ==
    [][\A query \in Queries, role \in {""} \cup Roles :
         MemSearch(query, role)
            => /\ IsSelection(log'["t1"][1].arg.ret, messages, query, role)
               /\ MemoryContents' = MemoryContents]_vars

\* C30 witness: a search in capitals for one role found the one message of
\* that role whose content, partly in capitals, holds the query, out of two
\* stored messages
C30_Witness ==
    /\ log["t1"] # <<>>
    /\ log["t1"][1].ev = "search_messages"
    /\ log["t1"][1].arg.args = <<<<"G", "O", "O", "D">>, "user">>
    /\ Len(log["t1"][1].arg.ret) = 1
    /\ Len(messages) = 2
    /\ messages[1].role = "assistant"

\* the roles and contents of the messages, in their order
RolesAndContents(msgs) == [i \in 1..Len(msgs) |-> Formatted(msgs[i])]

\* C31: export_conversation, then memory.clear(), then
\* import_conversation(exported) restores the same number of messages with
\* the same roles and contents in the same order, whatever the memory held
\* within its capacity.
C31_ConversationRoundTrip ==
    [][(messages = <<>> /\ ImportConversation)
       => RolesAndContents(messages') = RolesAndContents(Exported)]_vars

\* C31 witness: two messages that were exported, cleared and imported are
\* back in their order, stamped with the later time of the import
C31_Witness ==
    /\ log["t1"] # <<>>
    /\ Len(Exported) = 2
    /\ Exported[1].role = "user" /\ Exported[2].role = "assistant"
    /\ messages # Exported
    /\ RolesAndContents(messages) = RolesAndContents(Exported)
    /\ start_time = clock
    /\ clock > 0

\* thread t leaves the loop of record_with_vad in this step on the chunk it
\* takes from the queue: the silence-triggered end
EndsOnSilence(t) ==
    /\ pc[t] = "rec"
    /\ pc'[t] = "rec_stop"
    /\ audio_queue # <<>>
    /\ audio_queue' = Tail(audio_queue)

\* C32: record_with_vad ends on silence only at a silent chunk, when speech
\* was detected earlier in the call, more than silence_duration has passed
\* since the last chunk above the threshold and more than
\* min_recording_duration since the recording started.
C32_SilenceEndConditions ==
    [][\A t \in Threads :
         EndsOnSilence(t)
            => /\ Head(audio_queue) = "quiet"
               /\ loc[t].speech_detected
               /\ loc[t].elapsed - loc[t].last_speech_time > SilencePolls
               /\ loc[t].elapsed > MinRecordingPolls]_vars

\* C32 witness: a call has taken the silence end and is about to stop the
\* recorder
C32_Witness == SilenceEnded("t1") /\ audio_data > 0

\* C33: whenever record_with_vad leaves its loop with speech_detected false,
\* the time elapsed since the recording started is at least max_duration:
\* the hard timeout is the only way an utterance with no detected speech is
\* returned.
C33_NoSpeechOnlyAtTimeout ==
    [][\A t \in Threads :
         (pc[t] = "rec" /\ pc'[t] = "rec_stop" /\ ~loc'[t].speech_detected)
            => loc'[t].elapsed >= loc'[t].max_duration]_vars

\* C34: within one record_with_vad call on_speech_detected is called at most
\* once, at the first chunk above the threshold and at no later one, and
\* on_silence_detected is called at most once and only after
\* on_speech_detected.
C34_VadCallbacksOnce ==
    /\ [](\A t \in Threads :
            /\ Cardinality(Positions(t, "on_speech_detected")) <= 1
            /\ Cardinality(Positions(t, "on_silence_detected")) <= 1
            /\ \A i \in Positions(t, "on_silence_detected") :
                  \E h \in 1..(i - 1) : log[t][h].ev = "on_speech_detected")
    /\ [][\A t \in Threads :
            Consumes(t, "loud")
               => (HasEvent(t, "on_speech_detected") <=> loc[t].speech_detected)]_vars

\* C34 witness: a call in which both callbacks were called has returned
C34_Witness ==
    /\ pc["t1"] = "idle"
    /\ HasEvent("t1", "on_speech_detected")
    /\ HasEvent("t1", "on_silence_detected")
    /\ ~is_recording

\* C35: when a new recording starts the frame queue holds no chunk left over
\* from an earlier recording, so every chunk record_with_vad decides on was
\* captured during that same call.
C35_NoStaleFrames ==
    [][\A t \in Threads :
         (pc[t] # "rec" /\ pc'[t] = "rec") => audio_queue = <<>>]_vars

\* C36: at most one capture worker thread runs for the recorder at any time,
\* whatever the sequence of start_recording and stop_recording calls, also
\* when the join of stop_recording timed out before the next start_recording.
C36_OneCaptureWorker ==
    Cardinality({w \in Threads : pc[w] = "capture"}) <= 1

\* the kinds of the events a step appends to the log of thread t
NewEvents(t) ==
    IF Len(log'[t]) > Len(log[t])
    THEN {log'[t][i].ev : i \in (Len(log[t]) + 1)..Len(log'[t])}
    ELSE {}

\* the events of a turn: transcription, command handling, Responder call and
\* Speaker call
TurnEvents ==
    {"transcribed", "transcribe_error", "command", "responded", "respond_error",
     "speak", "tone"}

\* C37: once stop() has returned the orchestrator starts no transcription, no
\* command handling, no Responder call, no memory append and no Speaker call,
\* also for the turn whose recording was going on when stop() was called.
C37_NothingAfterStop ==
    [][\A t \in Threads :
         (HasEvent(t, "stop_called") /\ ~is_active)
         => (NewEvents(t) \cap TurnEvents = {} /\ messages' = messages)]_vars

\* whether the list s is the end of the list m
IsSuffix(s, m) ==
    /\ Len(s) <= Len(m)
    /\ s = SubSeq(m, (Len(m) - Len(s)) + 1, Len(m))

\* the list without its last element
Front(m) == SubSeq(m, 1, Len(m) - 1)

\* C38: a turn handled as a command appends nothing to memory; a turn that goes
\* to the Responder appends the user's message before the backend call and the
\* assistant's message only after a successful reply, so that a successful
\* turn leaves the pair (user, assistant) in that order at the end of the
\* list, after messages that were there before.
C38_TurnMemoryEffect ==
    [][\A t \in Threads :
         /\ (pc[t] = "pi_cmd" /\ pc'[t] # "pi_respond")
               => messages' \in {messages, <<>>}
         /\ pc[t] \in {"pi_cb", "pi_exit_speak", "pi_exit_stop", "pi_response_cb",
                       "pi_speak"}
               => messages' = messages
         /\ (pc[t] = "pi_respond" /\ pc'[t] = "pi_backend")
               => /\ messages' # <<>>
                  /\ messages'[Len(messages')] = Message("user", loc[t].text, clock)
                  /\ IsSuffix(Front(messages'), messages)
         /\ (pc[t] = "pi_backend" /\ pc'[t] # "pi_backend")
               => IF "responded" \in NewEvents(t)
                  THEN /\ Len(messages') >= 2
                       /\ messages'[Len(messages') - 1]
                            = Message("user", loc[t].text, clock)
                       /\ messages'[Len(messages')]
                            = Message("assistant", Strip(REPLY), clock)
                       /\ IsSuffix(Front(messages'), messages)
                  ELSE messages' = messages]_vars

\* C38 witness: a turn whose backend call succeeded, the memory ending with
\* the user's message and the reply
C38_Witness ==
    /\ pc["t1"] = "pi_response_cb"
    /\ HasEvent("t1", "responded")
    /\ Len(messages) = 2
    /\ messages[1] = Message("user", loc["t1"].text, clock)
    /\ messages[2].role = "assistant"

\* C39: after any sequence of add_message, clear, import_from_file and
\* import_conversation calls the memory holds at most 2 * max_messages
\* messages.
C39_CapacityAfterImports == Len(messages) <= 2 * max_messages

\* C40: an import_from_file that fails, because the file is missing, is no
\* JSON or holds a start_time that is no date, leaves the messages, the
\* context and the start time of the memory as they were before the call.
C40_FailedImportChangesNothing ==
    [][(ImportFromFile /\ ImportFails) => UNCHANGED MemoryContents]_vars

====
